---- MODULE Spec2Model ----
(***************************************************************************)
(* flow-service: the State Manager, the Workflow/Execution services and    *)
(* the DAG execution engine, modelled from service/state_manager.go,       *)
(* service/workflow_service.go, service/execution_service.go,              *)
(* service/models/execution.go and service/workflow_engine.go.             *)
(*                                                                         *)
(* One module, several specifications over the same variables:             *)
(*   SpecSM    the State Manager called directly (validate / record)       *)
(*   SpecSvc   the service layer's status operations (handlers are atomic) *)
(*   SpecDAG   one execution inside the engine, goroutine by goroutine     *)
(*   SpecAdmit concurrent ExecuteWorkflow calls against the live map       *)
(***************************************************************************)
EXTENDS Integers, Sequences, FiniteSets

(* ---------------------------------------------------------------- bounds *)

\* longest transition history the service operations may build
MaxHistory == 3

\* longest transition history built by direct record calls
MaxRecords == 1

\* default of Execution.MaxRetries set by CreateExecution
MaxRetries == 3

\* WorkflowEngine.maxConcurrency set by NewWorkflowEngine
maxConcurrency == 10

\* the number of nodeExecutorWorker goroutines executeDAG starts
NumWorkers == 3

\* the number of executions submitted concurrently to the engine
NumCallers == 11

\* the last reading of the scheduler's clock
MaxTime == 5

\* the longest duration of a run, in nanoseconds
MaxDuration == 3

\* the most runs of a workflow that finish
MaxRuns == 4

\* the largest value a plugin returns under an output key
MaxValue == 2

\* the number of requests the Workflow Service serves concurrently
NumClients == 2

\* concurrent callers of ExecuteWorkflow while the engine is being stopped
NumStopCallers == 3

WorkflowIds == {"w1"}
ExecIds == {"e1"}

(* ---------------------------------------------------------------- state *)

VARIABLES
    transitionHistory,  \* StateManager.transitionHistory
    resp,               \* what the last call returned, with its arguments
    dbWorkflows,        \* persisted workflows: id -> [Status]
    dbExecutions,       \* persisted executions: id -> [Status, RetryCount, ...]
    engineStatus,       \* WorkflowEngine.status
    executions,         \* WorkflowEngine.executions (the keys of the live map)
    ctxCancelled,       \* registered executions whose context is cancelled
    callPc,             \* where each in-flight ExecuteWorkflow call is
    wf,                 \* ExecutionContext.Workflow: [Nodes, Edges]
    NodeStates,         \* ExecutionContext.NodeStates
    NodeDependencies,   \* ExecutionContext.NodeDependencies
    CompletedNodes,     \* ExecutionContext.CompletedNodes
    ExecutingNodes,     \* ExecutionContext.ExecutingNodes
    ReadyNodes,         \* ExecutionContext.ReadyNodes: the buffered channel
    readyClosed,        \* ReadyNodes has been closed
    errorChan,          \* executeDAG's errorChan: the number of buffered errors
    errorClosed,        \* errorChan has been closed
    mainPc,             \* where the goroutine of ExecuteWorkflow is
    result,             \* what executeWorkflowInternal returned
    wpc,                \* where each nodeExecutorWorker is
    wnode,              \* the nodeID each worker holds
    wedge,              \* the index of the edge each worker's activation is at
    panicked,           \* a goroutine panicked: the process is gone
    dbDefs,             \* persisted workflows: id -> [Version, Nodes, Edges]
    created,            \* per execution: the workflow CreateExecution read
    statistics,         \* persisted workflows: id -> WorkflowStatistics
    observed,           \* the arguments of the last UpdateWorkflowStatistics
    condExpr,           \* the expression of the last evaluated edge condition
    condContext,        \* the variables snapshot it was evaluated against
    condResult,         \* what evaluateSimpleCondition returned
    conditionNotMet,    \* the edges activateDownstreamNodes skipped on their condition
    nodeRun,            \* the node of the last executeNode and the timeout it derived
    execVariables,      \* ExecutionContext.Variables
    outputs,            \* per completed node: the nodeOutput.Data its plugin returned
    clients,            \* per concurrent request: the workflow it loaded, and where it is
    schedStatus,        \* SimpleScheduler.status
    tasks,              \* SimpleScheduler.tasks: id -> ScheduledTask
    now,                \* time.Now()
    tickReady,          \* a tick is buffered in ticker.C
    stopChan,           \* SimpleScheduler.stopChan: "open" or "closed"
    loopPc,             \* where schedulingLoop is
    due,                \* the tasks checkAndTriggerTasks collected
    stopPc,             \* where the call of SimpleScheduler.Stop is
    triggers            \* per task: the triggers emitted so far

svcVars == <<transitionHistory, resp, dbWorkflows, dbExecutions>>
engVars == <<engineStatus, executions, ctxCancelled, callPc>>
dagVars == <<wf, NodeStates, NodeDependencies, CompletedNodes, ExecutingNodes,
             ReadyNodes, readyClosed, errorChan, errorClosed, mainPc, result,
             wpc, wnode, wedge, panicked>>
dagRest == <<NodeStates, NodeDependencies, CompletedNodes, ExecutingNodes,
             ReadyNodes, readyClosed, errorChan, errorClosed, mainPc, result,
             wpc, wnode, wedge, panicked>>
evalVars == <<condExpr, condContext, condResult, conditionNotMet>>
nodeVars == <<nodeRun, execVariables, outputs>>
defVars == <<dbDefs, created, statistics, observed, evalVars, nodeVars, clients>>
schedVars == <<schedStatus, tasks, now, tickReady, stopChan, loopPc, due, stopPc,
               triggers>>
schedRest == <<schedStatus, now, tickReady, stopChan, loopPc, due, stopPc, triggers>>
extVars == <<defVars, schedVars>>
vars == <<transitionHistory, resp, dbWorkflows, dbExecutions,
          engineStatus, executions, ctxCancelled, callPc,
          wf, NodeStates, NodeDependencies, CompletedNodes, ExecutingNodes,
          ReadyNodes, readyClosed, errorChan, errorClosed, mainPc, result,
          wpc, wnode, wedge, panicked,
          dbDefs, created, statistics, observed, condExpr, condContext, condResult,
          conditionNotMet, nodeRun, execVariables, outputs, clients,
          schedStatus, tasks, now, tickReady, stopChan, loopPc, due, stopPc,
          triggers>>

(* ------------------------------------------------------- status domains *)

\* models.WorkflowStatus constants
WorkflowStatuses == {"inactive", "active", "paused", "disabled"}

\* models.ExecutionStatus constants
ExecutionStatuses ==
    {"pending", "running", "completed", "failed", "cancelled", "timeout", "archived"}

\* what a caller may hand to the State Manager: any string
WorkflowStatusInputs == WorkflowStatuses \cup {"archived"}
ExecutionStatusInputs == ExecutionStatuses \cup {"unknown"}

\* ExecutionStatus.IsFinished
IsFinished(s) == s \in {"completed", "failed", "cancelled", "timeout"}

(* -------------------------------------------------------- State Manager *)

\* the workflow table with active -> paused left out
workflowTransitions_noPause ==
    [s \in WorkflowStatuses |->
        CASE s = "inactive" -> <<"active", "disabled">>
          [] s = "active"   -> <<"inactive", "disabled">>
          [] s = "paused"   -> <<"active", "inactive", "disabled">>
          [] s = "disabled" -> <<"inactive">>]

\* StateManager.workflowTransitions as initializeTransitionRules fills it
workflowTransitions ==
    [s \in WorkflowStatuses |->
        CASE s = "inactive" -> <<"active", "disabled">>
          [] s = "active"   -> <<"inactive", "paused", "disabled">>
          [] s = "paused"   -> <<"active", "inactive", "disabled">>
          [] s = "disabled" -> <<"inactive">>]

\* the execution table in which a completed execution may be re-run
executionTransitions_rerun ==
    [s \in {"pending", "running", "failed", "completed", "cancelled"} |->
        CASE s = "pending"   -> <<"running", "cancelled">>
          [] s = "running"   -> <<"completed", "failed", "cancelled">>
          [] s = "failed"    -> <<"pending">>
          [] s = "completed" -> <<"pending">>
          [] s = "cancelled" -> << >>]

\* StateManager.executionTransitions as initializeTransitionRules fills it
executionTransitions ==
    [s \in {"pending", "running", "failed", "completed", "cancelled"} |->
        CASE s = "pending"   -> <<"running", "cancelled">>
          [] s = "running"   -> <<"completed", "failed", "cancelled">>
          [] s = "failed"    -> <<"pending">>
          [] s = "completed" -> << >>
          [] s = "cancelled" -> << >>]

\* ValidateWorkflowTransition: "nil" or the error it returns
ValidateWorkflowTransition(from, to) ==
    IF from \notin DOMAIN workflowTransitions
    THEN "invalid from status"
    ELSE IF \E i \in 1..Len(workflowTransitions[from]) :
                workflowTransitions[from][i] = to
         THEN "nil"
         ELSE "invalid workflow state transition"

\* a validation that only looks the source status up
ValidateExecutionTransition_lax(from, to) ==
    IF from \notin DOMAIN executionTransitions
    THEN "invalid from status"
    ELSE "nil"

\* ValidateExecutionTransition: "nil" or the error it returns
ValidateExecutionTransition(from, to) ==
    IF from \notin DOMAIN executionTransitions
    THEN "invalid from status"
    ELSE IF \E i \in 1..Len(executionTransitions[from]) :
                executionTransitions[from][i] = to
         THEN "nil"
         ELSE "invalid execution state transition"

\* the StateTransition a record call builds (ID, Reason, Operator and
\* Timestamp carry no state the model reads)
StateTransition(entityType, id, from, to) ==
    [EntityType |-> entityType, EntityID |-> id, FromStatus |-> from, ToStatus |-> to]

\* a record call that appends without validating
RecordWorkflowTransition_noValidate(history, id, from, to) ==
    Append(history, StateTransition("workflow", id, from, to))

\* RecordWorkflowTransition: the history after the call
RecordWorkflowTransition(history, id, from, to) ==
    IF ValidateWorkflowTransition(from, to) # "nil"
    THEN history
    ELSE Append(history, StateTransition("workflow", id, from, to))

\* RecordExecutionTransition: the history after the call
RecordExecutionTransition(history, id, from, to) ==
    IF ValidateExecutionTransition(from, to) # "nil"
    THEN history
    ELSE Append(history, StateTransition("execution", id, from, to))

Resp(op, id, from, to, err) ==
    [op |-> op, id |-> id, from |-> from, to |-> to, err |-> err]

NoResp == Resp("none", "", "", "", "nil")

Workers == 1..NumWorkers

\* the executions submitted concurrently, by id
Callers == 1..NumCallers

\* no execution is inside the engine
NoDag ==
    /\ wf = [Nodes |-> {}, Edges |-> << >>]
    /\ NodeStates = << >>
    /\ NodeDependencies = << >>
    /\ CompletedNodes = {}
    /\ ExecutingNodes = {}
    /\ ReadyNodes = << >>
    /\ readyClosed = FALSE
    /\ errorChan = 0
    /\ errorClosed = FALSE
    /\ mainPc = "idle"
    /\ result = "none"
    /\ wpc = [w \in Workers |-> "idle"]
    /\ wnode = [w \in Workers |-> "none"]
    /\ wedge = [w \in Workers |-> 0]
    /\ panicked = FALSE

\* the tasks the scheduler may hold: task_<workflow id>
TaskIds == {"task_" \o w : w \in WorkflowIds}

\* a workflow definition as CreateWorkflow stores it by default
Definition(version, nodes, edges) ==
    [Version |-> version, Nodes |-> nodes, Edges |-> edges]

\* &WorkflowStatistics{}
WorkflowStatistics(total, successful, failed, average) ==
    [TotalExecutions |-> total, SuccessfulRuns |-> successful, FailedRuns |-> failed,
     AverageExecTime |-> average]

\* the concurrent requests against the Workflow Service
Clients == 1..NumClients

\* no request is in flight, and none has updated the statistics
NoClient ==
    clients = [c \in Clients |->
                  [pc |-> "idle", op |-> "none", id |-> "", target |-> "", status |-> "",
                   stats |-> WorkflowStatistics(0, 0, 0, 0), execTime |-> 0,
                   success |-> FALSE, updates |-> 0]]

\* no node has been executed: a node without configuration and no variables
NoNode ==
    /\ nodeRun = [node |-> [Config |-> {}], workflowTimeout |-> 0, timeout |-> 0]
    /\ execVariables = << >>
    /\ outputs = << >>

\* no execution of the workflow has finished, no edge condition has been
\* evaluated and no node has been executed
NoStats ==
    /\ statistics = [w \in WorkflowIds |-> WorkflowStatistics(0, 0, 0, 0)]
    /\ observed = [execTime |-> 0, success |-> FALSE]
    /\ condExpr = << >>
    /\ condContext = << >>
    /\ condResult = [value |-> FALSE, err |-> "none"]
    /\ conditionNotMet = {}
    /\ NoNode
    /\ NoClient

\* no workflow definition is looked at
NoDefs ==
    /\ dbDefs = [w \in WorkflowIds |-> Definition("1.0.0", {}, << >>)]
    /\ created = [e \in ExecIds |-> Definition("1.0.0", {}, << >>)]
    /\ NoStats

\* the scheduler as NewSimpleScheduler returns it
NoSched ==
    /\ schedStatus = "stopped"
    /\ tasks = << >>
    /\ now = 1
    /\ tickReady = FALSE
    /\ stopChan = "open"
    /\ loopPc = "none"
    /\ due = << >>
    /\ stopPc = "idle"
    /\ triggers = [t \in TaskIds |-> 0]

(* ------------------------------------- the State Manager called directly *)

ValidateWorkflowTransitionCall ==
    \E from \in WorkflowStatusInputs, to \in WorkflowStatusInputs :
        /\ resp' = Resp("ValidateWorkflowTransition", "", from, to,
                        ValidateWorkflowTransition(from, to))
        /\ UNCHANGED <<extVars, transitionHistory, dbWorkflows, dbExecutions, engVars, dagVars>>

ValidateExecutionTransitionCall ==
    \E from \in ExecutionStatusInputs, to \in ExecutionStatusInputs :
        /\ resp' = Resp("ValidateExecutionTransition", "", from, to,
                        ValidateExecutionTransition(from, to))
        /\ UNCHANGED <<extVars, transitionHistory, dbWorkflows, dbExecutions, engVars, dagVars>>

RecordWorkflowTransitionCall ==
    \E id \in WorkflowIds, from \in WorkflowStatusInputs, to \in WorkflowStatusInputs :
        /\ transitionHistory' = RecordWorkflowTransition(transitionHistory, id, from, to)
        /\ Len(transitionHistory') <= MaxRecords
        /\ resp' = Resp("RecordWorkflowTransition", id, from, to,
                        ValidateWorkflowTransition(from, to))
        /\ UNCHANGED <<extVars, dbWorkflows, dbExecutions, engVars, dagVars>>

RecordExecutionTransitionCall ==
    \E id \in ExecIds, from \in ExecutionStatusInputs, to \in ExecutionStatusInputs :
        /\ transitionHistory' = RecordExecutionTransition(transitionHistory, id, from, to)
        /\ Len(transitionHistory') <= MaxRecords
        /\ resp' = Resp("RecordExecutionTransition", id, from, to,
                        ValidateExecutionTransition(from, to))
        /\ UNCHANGED <<extVars, dbWorkflows, dbExecutions, engVars, dagVars>>

\* a created execution record as CreateExecution persists it
NewExecution(status) ==
    [Status |-> status, RetryCount |-> 0, StartedAt |-> FALSE,
     CompletedAt |-> FALSE, ErrorMsg |-> ""]

InitSM ==
    /\ transitionHistory = << >>
    /\ resp = NoResp
    /\ dbWorkflows = [w \in WorkflowIds |-> [Status |-> "inactive"]]
    /\ dbExecutions = [e \in ExecIds |-> NewExecution("pending")]
    /\ engineStatus = "stopped"
    /\ executions = {}
    /\ ctxCancelled = {}
    /\ callPc = [c \in Callers |-> "idle"]
    /\ NoDag
    /\ NoDefs
    /\ NoSched

NextSM ==
    \/ ValidateWorkflowTransitionCall
    \/ ValidateExecutionTransitionCall
    \/ RecordWorkflowTransitionCall
    \/ RecordExecutionTransitionCall

SpecSM == InitSM /\ [][NextSM]_vars

(* ------------------------------------------------------ Workflow Service *)

\* scheduleWorkflow and unscheduleWorkflow, on the scheduler's tasks: both
\* return nil and leave the tasks as they are
scheduleWorkflow(ts) == ts

unscheduleWorkflow(ts) == ts

\* the common shape of ActivateWorkflow, DeactivateWorkflow, PauseWorkflow and
\* ResumeWorkflow: read, validate, set the status, save, record, and call
\* scheduleWorkflow (when the target is active) or unscheduleWorkflow
WorkflowStatusOp(op, id, target) ==
    \E dbOk \in BOOLEAN :
        LET from == dbWorkflows[id].Status
            verr == ValidateWorkflowTransition(from, target)
        IN  /\ IF verr # "nil"
               THEN /\ resp' = Resp(op, id, from, target, "invalid state transition")
                    /\ UNCHANGED <<transitionHistory, dbWorkflows, tasks>>
               ELSE IF ~dbOk
               THEN /\ resp' = Resp(op, id, from, target, "failed to save workflow")
                    /\ UNCHANGED <<transitionHistory, dbWorkflows, tasks>>
               ELSE /\ dbWorkflows' = [dbWorkflows EXCEPT ![id].Status = target]
                    /\ transitionHistory' =
                           RecordWorkflowTransition(transitionHistory, id, from, target)
                    /\ tasks' = IF target = "active" THEN scheduleWorkflow(tasks)
                                ELSE unscheduleWorkflow(tasks)
                    /\ resp' = Resp(op, id, from, target, "nil")
            /\ Len(transitionHistory') <= MaxHistory
            /\ UNCHANGED <<defVars, schedRest, dbExecutions, engVars, dagVars>>

ActivateWorkflow == \E id \in WorkflowIds : WorkflowStatusOp("ActivateWorkflow", id, "active")

DeactivateWorkflow ==
    \E id \in WorkflowIds : WorkflowStatusOp("DeactivateWorkflow", id, "inactive")

PauseWorkflow == \E id \in WorkflowIds : WorkflowStatusOp("PauseWorkflow", id, "paused")

ResumeWorkflow == \E id \in WorkflowIds : WorkflowStatusOp("ResumeWorkflow", id, "active")

(* ----------------------------------------------------- Execution Service *)

\* Execution.Start: the record after the call, or the record itself on error
ExecutionStart(e) ==
    IF e.Status # "pending" THEN e
    ELSE [e EXCEPT !.Status = "running", !.StartedAt = TRUE]

\* Execution.Complete
ExecutionComplete(e) ==
    IF e.Status # "running" THEN e
    ELSE [e EXCEPT !.Status = "completed", !.CompletedAt = TRUE]

\* Execution.Fail
ExecutionFail(e, errorMsg) ==
    IF e.Status # "running" THEN e
    ELSE [e EXCEPT !.Status = "failed", !.ErrorMsg = errorMsg, !.CompletedAt = TRUE]

\* Execution.Cancel
ExecutionCancel(e) ==
    IF IsFinished(e.Status) THEN e
    ELSE [e EXCEPT !.Status = "cancelled", !.CompletedAt = TRUE]

\* Execution.CanRetry
\* a retry check that does not look at the count
CanRetry_anyCount(e) == e.Status = "failed"

CanRetry(e) == e.Status = "failed" /\ e.RetryCount < MaxRetries

\* Execution.Retry
ExecutionRetry(e) ==
    IF ~CanRetry(e) THEN e
    ELSE [e EXCEPT !.RetryCount = @ + 1, !.Status = "pending", !.StartedAt = FALSE,
                   !.CompletedAt = FALSE, !.ErrorMsg = ""]

\* WorkflowEngine.ExecuteWorkflow up to its return: the error, or "nil" when
\* the execution is admitted
ExecuteWorkflowErr ==
    IF engineStatus # "running" THEN "engine is not running"
    ELSE IF Cardinality(executions) >= maxConcurrency
    THEN "maximum concurrent executions reached"
    ELSE "nil"

\* execution.WorkflowID
WorkflowOf(id) == CHOOSE w \in WorkflowIds : TRUE

\* WorkflowService.GetWorkflow as StartExecution calls it: the nodes and edges
\* persisted for the execution's workflow id
GetWorkflow(id) ==
    [Nodes |-> dbDefs[WorkflowOf(id)].Nodes, Edges |-> dbDefs[WorkflowOf(id)].Edges]

\* StartExecution on the persisted executions db (RetryExecution calls it on
\* what it has just saved); from is the status the operation first read
StartExecutionOn(op, db, id, from, dbOk) ==
    LET e == db[id] IN
    IF e.Status # "pending"
    THEN /\ dbExecutions' = db
         /\ resp' = Resp(op, id, from, "running", "failed to start execution")
         /\ UNCHANGED <<engVars, wf>>
    ELSE IF ~dbOk
    THEN /\ dbExecutions' = db
         /\ resp' = Resp(op, id, from, "running", "failed to update execution")
         /\ UNCHANGED <<engVars, wf>>
    ELSE /\ dbExecutions' = [db EXCEPT ![id] = ExecutionStart(e)]
         /\ IF ExecuteWorkflowErr # "nil"
            THEN /\ resp' = Resp(op, id, from, "running",
                                 "failed to start workflow execution")
                 /\ UNCHANGED <<engVars, wf>>
            ELSE /\ executions' = executions \cup {id}
                 /\ ctxCancelled' = ctxCancelled \ {id}
                 /\ wf' = GetWorkflow(id)
                 /\ resp' = Resp(op, id, from, "running", "nil")
                 /\ UNCHANGED <<engineStatus, callPc>>

StartExecution ==
    \E id \in ExecIds, dbOk \in BOOLEAN :
        /\ StartExecutionOn("StartExecution", dbExecutions, id,
                            dbExecutions[id].Status, dbOk)
        /\ UNCHANGED <<extVars, transitionHistory, dbWorkflows, dagRest>>

CompleteExecution ==
    \E id \in ExecIds, dbOk \in BOOLEAN :
        LET e == dbExecutions[id]
            verr == ValidateExecutionTransition(e.Status, "completed")
        IN  /\ IF verr # "nil"
               THEN /\ resp' = Resp("CompleteExecution", id, e.Status, "completed",
                                    "invalid state transition")
                    /\ UNCHANGED <<transitionHistory, dbExecutions>>
               ELSE /\ transitionHistory' =
                          RecordExecutionTransition(transitionHistory, id, e.Status,
                                                    "completed")
                    /\ IF dbOk
                       THEN /\ dbExecutions' =
                                   [dbExecutions EXCEPT ![id] = ExecutionComplete(e)]
                            /\ resp' = Resp("CompleteExecution", id, e.Status,
                                            "completed", "nil")
                       ELSE /\ UNCHANGED dbExecutions
                            /\ resp' = Resp("CompleteExecution", id, e.Status,
                                            "completed", "failed to update execution")
            /\ Len(transitionHistory') <= MaxHistory
            /\ UNCHANGED <<extVars, dbWorkflows, engVars, dagVars>>

FailExecution ==
    \E id \in ExecIds, dbOk \in BOOLEAN :
        LET e == dbExecutions[id]
            verr == ValidateExecutionTransition(e.Status, "failed")
        IN  /\ IF verr # "nil"
               THEN /\ resp' = Resp("FailExecution", id, e.Status, "failed",
                                    "invalid state transition")
                    /\ UNCHANGED <<transitionHistory, dbExecutions>>
               ELSE /\ transitionHistory' =
                          RecordExecutionTransition(transitionHistory, id, e.Status,
                                                    "failed")
                    /\ IF dbOk
                       THEN /\ dbExecutions' =
                                   [dbExecutions EXCEPT ![id] = ExecutionFail(e, "boom")]
                            /\ resp' = Resp("FailExecution", id, e.Status, "failed", "nil")
                       ELSE /\ UNCHANGED dbExecutions
                            /\ resp' = Resp("FailExecution", id, e.Status, "failed",
                                            "failed to update execution")
            /\ Len(transitionHistory') <= MaxHistory
            /\ UNCHANGED <<extVars, dbWorkflows, engVars, dagVars>>

\* WorkflowEngine.CancelExecution: the cancelled contexts after the call
EngineCancelExecution(id) ==
    IF id \in executions THEN ctxCancelled \cup {id} ELSE ctxCancelled

CancelExecution ==
    \E id \in ExecIds, dbOk \in BOOLEAN :
        LET e == dbExecutions[id]
            verr == ValidateExecutionTransition(e.Status, "cancelled")
        IN  /\ IF verr # "nil"
               THEN /\ resp' = Resp("CancelExecution", id, e.Status, "cancelled",
                                    "invalid state transition")
                    /\ UNCHANGED <<transitionHistory, dbExecutions, ctxCancelled>>
               ELSE /\ transitionHistory' =
                          RecordExecutionTransition(transitionHistory, id, e.Status,
                                                    "cancelled")
                    /\ ctxCancelled' = EngineCancelExecution(id)
                    /\ IF dbOk
                       THEN /\ dbExecutions' =
                                   [dbExecutions EXCEPT ![id] = ExecutionCancel(e)]
                            /\ resp' = Resp("CancelExecution", id, e.Status,
                                            "cancelled", "nil")
                       ELSE /\ UNCHANGED dbExecutions
                            /\ resp' = Resp("CancelExecution", id, e.Status,
                                            "cancelled", "failed to update execution")
            /\ Len(transitionHistory') <= MaxHistory
            /\ UNCHANGED <<extVars, dbWorkflows, engineStatus, executions, callPc, dagVars>>

RetryExecution ==
    \E id \in ExecIds, dbOk1 \in BOOLEAN, dbOk2 \in BOOLEAN :
        LET e == dbExecutions[id] IN
        /\ IF ~CanRetry(e)
           THEN /\ resp' = Resp("RetryExecution", id, e.Status, "pending",
                                "failed to retry execution")
                /\ UNCHANGED <<dbExecutions, engVars, wf>>
           ELSE IF ~dbOk1
           THEN /\ resp' = Resp("RetryExecution", id, e.Status, "pending",
                                "failed to update execution")
                /\ UNCHANGED <<dbExecutions, engVars, wf>>
           ELSE StartExecutionOn("RetryExecution",
                                 [dbExecutions EXCEPT ![id] = ExecutionRetry(e)],
                                 id, e.Status, dbOk2)
        /\ UNCHANGED <<extVars, transitionHistory, dbWorkflows, dagRest>>

\* the goroutine ExecuteWorkflow spawned returns: its deferred function
\* removes the execution from the live map
EngineGoroutineExit ==
    \E id \in executions :
        /\ executions' = executions \ {id}
        /\ UNCHANGED <<extVars, svcVars, engineStatus, ctxCancelled, callPc, dagVars>>

\* an execution that failed again after MaxRetries - 1 retries
FailedAfterRetries ==
    [Status |-> "failed", RetryCount |-> MaxRetries - 1, StartedAt |-> TRUE,
     CompletedAt |-> TRUE, ErrorMsg |-> "boom"]

\* the services after InitServices: the engine is started, and the workflow
\* and the execution exist with a status CreateWorkflow / CreateExecution accept
InitSvc ==
    /\ transitionHistory = << >>
    /\ resp = NoResp
    /\ dbWorkflows \in [WorkflowIds -> [Status : WorkflowStatuses]]
    /\ dbExecutions \in [ExecIds -> {NewExecution(s) : s \in ExecutionStatuses}
                                       \cup {FailedAfterRetries}]
    /\ engineStatus = "running"
    /\ executions = {}
    /\ ctxCancelled = {}
    /\ callPc = [c \in Callers |-> "idle"]
    /\ NoDag
    /\ NoDefs
    /\ NoSched

NextSvc ==
    \/ ActivateWorkflow
    \/ DeactivateWorkflow
    \/ PauseWorkflow
    \/ ResumeWorkflow
    \/ StartExecution
    \/ CompleteExecution
    \/ FailExecution
    \/ CancelExecution
    \/ RetryExecution
    \/ EngineGoroutineExit

SpecSvc == InitSvc /\ [][NextSvc]_vars

(* ------------------------------------------- the engine: one execution *)

\* the execution the engine runs in SpecDAG
E == "e1"

Edge(from, to, enabled, conditional) ==
    [From |-> from, To |-> to, Enabled |-> enabled, Conditional |-> conditional]

\* the workflows an execution is started on: a diamond with a tail, a chain,
\* a fork, a join with a disabled edge and an edge to a missing node, a
\* conditional edge beside a normal one, a cycle behind a start node, an edge
\* given three times, a graph without start node and a workflow without nodes
Workflows ==
    { [Nodes |-> {"a", "b", "c", "d"},
       Edges |-> << Edge("a", "c", TRUE, FALSE), Edge("b", "c", TRUE, FALSE),
                    Edge("c", "d", TRUE, FALSE) >>],
      [Nodes |-> {"a", "b", "c"},
       Edges |-> << Edge("a", "b", TRUE, FALSE), Edge("b", "c", TRUE, FALSE) >>],
      [Nodes |-> {"a", "b", "c"},
       Edges |-> << Edge("a", "b", TRUE, FALSE), Edge("a", "c", TRUE, FALSE) >>],
      [Nodes |-> {"a", "b", "c"},
       Edges |-> << Edge("a", "c", TRUE, FALSE), Edge("b", "c", FALSE, FALSE),
                    Edge("x", "c", TRUE, FALSE) >>],
      [Nodes |-> {"a", "b", "c"},
       Edges |-> << Edge("a", "b", TRUE, TRUE), Edge("a", "c", TRUE, FALSE),
                    Edge("b", "c", TRUE, FALSE) >>],
      [Nodes |-> {"a", "b", "c"},
       Edges |-> << Edge("a", "b", TRUE, FALSE), Edge("b", "c", TRUE, FALSE),
                    Edge("c", "b", TRUE, FALSE) >>],
      [Nodes |-> {"a", "b"},
       Edges |-> << Edge("a", "b", TRUE, FALSE), Edge("a", "b", TRUE, FALSE),
                    Edge("a", "b", TRUE, FALSE) >>],
      [Nodes |-> {"a", "b"},
       Edges |-> << Edge("a", "b", TRUE, FALSE), Edge("b", "a", TRUE, FALSE) >>],
      [Nodes |-> {}, Edges |-> << >>] }

\* workflows in which a node is reached over two paths: a conditional edge
\* into a node that a normal edge reaches later, an edge given three times
\* before an edge to a third node, and a workflow without nodes
ReadyWorkflows ==
    { [Nodes |-> {"a", "b", "c"},
       Edges |-> << Edge("a", "c", TRUE, TRUE), Edge("a", "b", TRUE, FALSE),
                    Edge("b", "c", TRUE, FALSE) >>],
      [Nodes |-> {"a", "b", "c"},
       Edges |-> << Edge("a", "b", TRUE, FALSE), Edge("a", "b", TRUE, FALSE),
                    Edge("a", "b", TRUE, FALSE), Edge("a", "c", TRUE, FALSE) >>],
      [Nodes |-> {}, Edges |-> << >>] }

\* the context of the execution is done
ctxDone == E \in ctxCancelled

\* a dependency graph that also follows disabled edges
BuildDependencies_disabledToo(w, n) ==
    LET es == SelectSeq(w.Edges, LAMBDA e : /\ e.To = n
                                            /\ e.To \in w.Nodes
                                            /\ e.From \in w.Nodes)
    IN  [i \in 1..Len(es) |-> es[i].From]

\* buildDependencyGraph: the dependency list of node n
BuildDependencies(w, n) ==
    LET es == SelectSeq(w.Edges, LAMBDA e : /\ e.Enabled
                                            /\ e.To = n
                                            /\ e.To \in w.Nodes
                                            /\ e.From \in w.Nodes)
    IN  [i \in 1..Len(es) |-> es[i].From]

\* findStartNodes
findStartNodes(w) == {n \in w.Nodes : Len(BuildDependencies(w, n)) = 0}

\* the orders in which a range over a map may yield the nodes of S
Orders(S) ==
    {q \in [1..Cardinality(S) -> S] : \A i, j \in 1..Cardinality(S) : q[i] = q[j] => i = j}

\* NodeDependencies[nodeID] as Go reads a map: the empty list for a missing key
Dependencies(nodeID) ==
    IF nodeID \in DOMAIN NodeDependencies THEN NodeDependencies[nodeID] ELSE << >>

\* a readiness check that is content with one completed dependency
areAnyDependenciesCompleted(nodeID) ==
    \/ Len(Dependencies(nodeID)) = 0
    \/ \E i \in 1..Len(Dependencies(nodeID)) : Dependencies(nodeID)[i] \in CompletedNodes

\* areAllDependenciesCompleted
areAllDependenciesCompleted(nodeID) ==
    \A i \in 1..Len(Dependencies(nodeID)) : Dependencies(nodeID)[i] \in CompletedNodes

\* cap(ReadyNodes) and cap(errorChan): len(workflow.Nodes)
Capacity == Cardinality(wf.Nodes)

\* activateDownstreamNodes' loop: the first edge at or after index i that
\* leaves completedNodeID and is enabled, Len + 1 when there is none
NextEdge(completedNodeID, i) ==
    LET js == {j \in i..Len(wf.Edges) :
                  wf.Edges[j].From = completedNodeID /\ wf.Edges[j].Enabled}
    IN  IF js = {} THEN Len(wf.Edges) + 1
        ELSE CHOOSE j \in js : \A k \in js : j <= k

\* the service starts the execution and the engine admits it: ExecuteWorkflow
\* registers the context and starts the goroutine
Submit ==
    /\ ~panicked
    /\ mainPc = "idle"
    /\ StartExecutionOn("StartExecution", dbExecutions, E, dbExecutions[E].Status, TRUE)
    /\ mainPc' = IF resp'.err = "nil" THEN "internal" ELSE "idle"
    /\ UNCHANGED <<extVars, transitionHistory, dbWorkflows, NodeStates, NodeDependencies,
                   CompletedNodes, ExecutingNodes, ReadyNodes, readyClosed, errorChan,
                   errorClosed, result, wpc, wnode, wedge, panicked>>

\* executeWorkflowInternal returns an error before any worker exists: the
\* workflow has no nodes, or no start node, or the select that enqueues a start
\* node takes the done context
executeWorkflowInternal_err ==
    /\ ~panicked
    /\ mainPc = "internal"
    /\ \/ /\ wf.Nodes = {} \/ findStartNodes(wf) = {}
          /\ UNCHANGED ReadyNodes
       \/ /\ findStartNodes(wf) # {}
          /\ ctxDone
          /\ \E q \in Orders(findStartNodes(wf)), k \in 0..(Cardinality(findStartNodes(wf)) - 1) :
                 ReadyNodes' = SubSeq(q, 1, k)
    /\ NodeDependencies' = [n \in wf.Nodes |-> BuildDependencies(wf, n)]
    /\ NodeStates' = [n \in wf.Nodes |-> "pending"]
    /\ result' = "err"
    /\ mainPc' = "deferDelete"
    /\ UNCHANGED <<extVars, svcVars, engVars, wf, CompletedNodes, ExecutingNodes,
                   readyClosed, errorChan, errorClosed, wpc, wnode, wedge, panicked>>

\* executeWorkflowInternal: the graph is built, the start nodes are enqueued
\* and executeDAG starts the workers
executeWorkflowInternal ==
    /\ ~panicked
    /\ mainPc = "internal"
    /\ wf.Nodes # {}
    /\ findStartNodes(wf) # {}
    /\ NodeDependencies' = [n \in wf.Nodes |-> BuildDependencies(wf, n)]
    /\ NodeStates' = [n \in wf.Nodes |-> "pending"]
    /\ \E q \in Orders(findStartNodes(wf)) : ReadyNodes' = q
    /\ wpc' = [w \in Workers |-> "select"]
    /\ mainPc' = "dag"
    /\ UNCHANGED <<extVars, svcVars, engVars, wf, CompletedNodes, ExecutingNodes, readyClosed,
                   errorChan, errorClosed, result, wnode, wedge, panicked>>

\* executeDAG's range over errorChan receives an error and returns it
executeDAG_err ==
    /\ ~panicked
    /\ mainPc = "dag"
    /\ errorChan > 0
    /\ errorChan' = errorChan - 1
    /\ result' = "err"
    /\ mainPc' = "deferDelete"
    /\ UNCHANGED <<extVars, svcVars, engVars, wf, NodeStates, NodeDependencies, CompletedNodes,
                   ExecutingNodes, ReadyNodes, readyClosed, errorClosed, wpc, wnode,
                   wedge, panicked>>

\* executeDAG's range ends on the closed, drained errorChan: it returns nil
executeDAG_nil ==
    /\ ~panicked
    /\ mainPc = "dag"
    /\ errorChan = 0
    /\ errorClosed
    /\ result' = "nil"
    /\ mainPc' = "deferDelete"
    /\ UNCHANGED <<extVars, svcVars, engVars, wf, NodeStates, NodeDependencies, CompletedNodes,
                   ExecutingNodes, ReadyNodes, readyClosed, errorChan, errorClosed, wpc,
                   wnode, wedge, panicked>>

\* executeDAG's waiting goroutine: wg.Wait() returns, errorChan is closed
WaitAndClose ==
    /\ ~panicked
    /\ ~errorClosed
    /\ \A w \in Workers : wpc[w] = "exit"
    /\ errorClosed' = TRUE
    /\ UNCHANGED <<extVars, svcVars, engVars, wf, NodeStates, NodeDependencies, CompletedNodes,
                   ExecutingNodes, ReadyNodes, readyClosed, errorChan, mainPc, result,
                   wpc, wnode, wedge, panicked>>

\* ExecuteWorkflow's deferred function, first half: delete from the live map
DeferDelete ==
    /\ ~panicked
    /\ mainPc = "deferDelete"
    /\ executions' = executions \ {E}
    /\ mainPc' = "deferClose"
    /\ UNCHANGED <<extVars, svcVars, engineStatus, ctxCancelled, callPc, wf, NodeStates,
                   NodeDependencies, CompletedNodes, ExecutingNodes, ReadyNodes,
                   readyClosed, errorChan, errorClosed, result, wpc, wnode, wedge,
                   panicked>>

\* ExecuteWorkflow's deferred function, second half: close(ReadyNodes)
DeferClose ==
    /\ ~panicked
    /\ mainPc = "deferClose"
    /\ readyClosed' = TRUE
    /\ mainPc' = "done"
    /\ UNCHANGED <<extVars, svcVars, engVars, wf, NodeStates, NodeDependencies, CompletedNodes,
                   ExecutingNodes, ReadyNodes, errorChan, errorClosed, result, wpc,
                   wnode, wedge, panicked>>

(* ----------------------------------------------------- nodeExecutorWorker *)

dagFrame == <<svcVars, engVars, wf>>

\* the select at the top of the loop takes <-ctx.Done(): the worker returns
WorkerCtxDone(w) ==
    /\ ~panicked
    /\ wpc[w] = "select"
    /\ ctxDone
    /\ wpc' = [wpc EXCEPT ![w] = "exit"]
    /\ UNCHANGED <<extVars, dagFrame, NodeStates, NodeDependencies, CompletedNodes,
                   ExecutingNodes, ReadyNodes, readyClosed, errorChan, errorClosed,
                   mainPc, result, wnode, wedge, panicked>>

\* the select receives a nodeID from ReadyNodes
WorkerReceive(w) ==
    /\ ~panicked
    /\ wpc[w] = "select"
    /\ Len(ReadyNodes) > 0
    /\ wnode' = [wnode EXCEPT ![w] = Head(ReadyNodes)]
    /\ ReadyNodes' = Tail(ReadyNodes)
    /\ wpc' = [wpc EXCEPT ![w] = "check"]
    /\ UNCHANGED <<extVars, dagFrame, NodeStates, NodeDependencies, CompletedNodes,
                   ExecutingNodes, readyClosed, errorChan, errorClosed, mainPc,
                   result, wedge, panicked>>

\* the select receives from the closed, drained ReadyNodes: the worker returns
WorkerClosed(w) ==
    /\ ~panicked
    /\ wpc[w] = "select"
    /\ Len(ReadyNodes) = 0
    /\ readyClosed
    /\ wpc' = [wpc EXCEPT ![w] = "exit"]
    /\ UNCHANGED <<extVars, dagFrame, NodeStates, NodeDependencies, CompletedNodes,
                   ExecutingNodes, ReadyNodes, readyClosed, errorChan, errorClosed,
                   mainPc, result, wnode, wedge, panicked>>

\* a deduplication that never skips
IsExecuting_never(nodeID) == FALSE

\* the deduplication check: ExecutingNodes[nodeID]
IsExecuting(nodeID) == nodeID \in ExecutingNodes

\* under the lock: skip a node that is executing, else mark it executing
WorkerCheck(w) ==
    /\ ~panicked
    /\ wpc[w] = "check"
    /\ IF IsExecuting(wnode[w])
       THEN /\ wpc' = [wpc EXCEPT ![w] = "select"]
            /\ wnode' = [wnode EXCEPT ![w] = "none"]
            /\ UNCHANGED ExecutingNodes
       ELSE /\ ExecutingNodes' = ExecutingNodes \cup {wnode[w]}
            /\ wpc' = [wpc EXCEPT ![w] = "run"]
            /\ UNCHANGED wnode
    /\ UNCHANGED <<extVars, dagFrame, NodeStates, NodeDependencies, CompletedNodes, ReadyNodes,
                   readyClosed, errorChan, errorClosed, mainPc, result, wedge, panicked>>

\* executeNode begins: for a nodeID the workflow does not have, node is nil and
\* reading node.Type panics; otherwise the node's state becomes running
WorkerRun(w) ==
    /\ ~panicked
    /\ wpc[w] = "run"
    /\ IF wnode[w] \notin wf.Nodes
       THEN /\ panicked' = TRUE
            /\ UNCHANGED <<NodeStates, wpc>>
       ELSE /\ NodeStates' = [NodeStates EXCEPT ![wnode[w]] = "running"]
            /\ wpc' = [wpc EXCEPT ![w] = "plugin"]
            /\ UNCHANGED panicked
    /\ UNCHANGED <<extVars, dagFrame, NodeDependencies, CompletedNodes, ExecutingNodes,
                   ReadyNodes, readyClosed, errorChan, errorClosed, mainPc, result,
                   wnode, wedge>>

\* executeNode returns nil: the node is marked completed under the lock
WorkerNodeSucceeds(w) ==
    /\ ~panicked
    /\ wpc[w] = "plugin"
    /\ NodeStates' = [NodeStates EXCEPT ![wnode[w]] = "completed"]
    /\ CompletedNodes' = CompletedNodes \cup {wnode[w]}
    /\ ExecutingNodes' = ExecutingNodes \ {wnode[w]}
    /\ IF NextEdge(wnode[w], 1) > Len(wf.Edges)
       THEN /\ wpc' = [wpc EXCEPT ![w] = "select"]
            /\ wnode' = [wnode EXCEPT ![w] = "none"]
            /\ UNCHANGED wedge
       ELSE /\ wpc' = [wpc EXCEPT ![w] = "activate"]
            /\ wedge' = [wedge EXCEPT ![w] = NextEdge(wnode[w], 1)]
            /\ UNCHANGED wnode
    /\ UNCHANGED <<extVars, dagFrame, NodeDependencies, ReadyNodes, readyClosed, errorChan,
                   errorClosed, mainPc, result, panicked>>

\* executeNode returns an error (the plugin is not registered, Execute fails
\* or times out, the output is nil or has Success false): the node is marked
\* failed under the lock
WorkerNodeFails(w) ==
    /\ ~panicked
    /\ wpc[w] = "plugin"
    /\ NodeStates' = [NodeStates EXCEPT ![wnode[w]] = "failed"]
    /\ ExecutingNodes' = ExecutingNodes \ {wnode[w]}
    /\ wpc' = [wpc EXCEPT ![w] = "sendErr"]
    /\ UNCHANGED <<extVars, dagFrame, NodeDependencies, CompletedNodes, ReadyNodes, readyClosed,
                   errorChan, errorClosed, mainPc, result, wnode, wedge, panicked>>

\* errorChan <- err, then the worker returns
WorkerSendErr(w) ==
    /\ ~panicked
    /\ wpc[w] = "sendErr"
    /\ errorChan < Capacity
    /\ errorChan' = errorChan + 1
    /\ wpc' = [wpc EXCEPT ![w] = "exit"]
    /\ wnode' = [wnode EXCEPT ![w] = "none"]
    /\ UNCHANGED <<extVars, dagFrame, NodeStates, NodeDependencies, CompletedNodes,
                   ExecutingNodes, ReadyNodes, readyClosed, errorClosed, mainPc,
                   result, wedge, panicked>>

\* where the worker goes after the edge at index j: on to the next edge that
\* leaves its node, or back to the select
AfterEdge(w, j) ==
    IF NextEdge(wnode[w], j + 1) > Len(wf.Edges)
    THEN /\ wpc' = [wpc EXCEPT ![w] = "select"]
         /\ wnode' = [wnode EXCEPT ![w] = "none"]
         /\ wedge' = [wedge EXCEPT ![w] = 0]
    ELSE /\ wedge' = [wedge EXCEPT ![w] = NextEdge(wnode[w], j + 1)]
         /\ UNCHANGED <<wpc, wnode>>

\* activateDownstreamNodes, one edge: the edge's condition is false or fails
\* to evaluate, or the target still waits for a dependency: nothing is sent
ActivateSkip(w) ==
    /\ ~panicked
    /\ wpc[w] = "activate"
    /\ \/ /\ wf.Edges[wedge[w]].Conditional
          /\ conditionNotMet' = conditionNotMet \cup {wedge[w]}
       \/ /\ ~areAllDependenciesCompleted(wf.Edges[wedge[w]].To)
          /\ UNCHANGED conditionNotMet
    /\ AfterEdge(w, wedge[w])
    /\ UNCHANGED <<dbDefs, created, statistics, observed, condExpr, condContext,
                   condResult, nodeVars, clients, schedVars, dagFrame, NodeStates, NodeDependencies, CompletedNodes,
                   ExecutingNodes, ReadyNodes, readyClosed, errorChan, errorClosed,
                   mainPc, result, panicked>>

\* activateDownstreamNodes, one edge: the target is ready and the select
\* takes the send; on the closed channel the send panics
ActivateSend(w) ==
    /\ ~panicked
    /\ wpc[w] = "activate"
    /\ areAllDependenciesCompleted(wf.Edges[wedge[w]].To)
    /\ \/ /\ readyClosed
          /\ panicked' = TRUE
          /\ UNCHANGED <<ReadyNodes, wpc, wnode, wedge>>
       \/ /\ ~readyClosed
          /\ Len(ReadyNodes) < Capacity
          /\ ReadyNodes' = Append(ReadyNodes, wf.Edges[wedge[w]].To)
          /\ AfterEdge(w, wedge[w])
          /\ UNCHANGED panicked
    /\ UNCHANGED <<extVars, dagFrame, NodeStates, NodeDependencies, CompletedNodes,
                   ExecutingNodes, readyClosed, errorChan, errorClosed, mainPc, result>>

\* activateDownstreamNodes, one edge: the target is ready and the select
\* takes <-ctx.Done(): the activation returns
ActivateCtxDone(w) ==
    /\ ~panicked
    /\ wpc[w] = "activate"
    /\ areAllDependenciesCompleted(wf.Edges[wedge[w]].To)
    /\ ctxDone
    /\ wpc' = [wpc EXCEPT ![w] = "select"]
    /\ wnode' = [wnode EXCEPT ![w] = "none"]
    /\ wedge' = [wedge EXCEPT ![w] = 0]
    /\ UNCHANGED <<extVars, dagFrame, NodeStates, NodeDependencies, CompletedNodes,
                   ExecutingNodes, ReadyNodes, readyClosed, errorChan, errorClosed,
                   mainPc, result, panicked>>

\* activateDownstreamNodes, one edge: the target is ready, the channel is full
\* and the context is live: the select takes default and the node is dropped
ActivateDrop(w) ==
    /\ ~panicked
    /\ wpc[w] = "activate"
    /\ areAllDependenciesCompleted(wf.Edges[wedge[w]].To)
    /\ ~readyClosed
    /\ Len(ReadyNodes) >= Capacity
    /\ ~ctxDone
    /\ AfterEdge(w, wedge[w])
    /\ UNCHANGED <<extVars, dagFrame, NodeStates, NodeDependencies, CompletedNodes,
                   ExecutingNodes, ReadyNodes, readyClosed, errorChan, errorClosed,
                   mainPc, result, panicked>>

\* a step of the engine's own goroutines
EngineStep ==
    \/ executeWorkflowInternal_err
    \/ executeWorkflowInternal
    \/ executeDAG_err
    \/ executeDAG_nil
    \/ WaitAndClose
    \/ DeferDelete
    \/ DeferClose
    \/ \E w \in Workers :
          \/ WorkerCtxDone(w)
          \/ WorkerReceive(w)
          \/ WorkerClosed(w)
          \/ WorkerCheck(w)
          \/ WorkerRun(w)
          \/ WorkerNodeSucceeds(w)
          \/ WorkerNodeFails(w)
          \/ WorkerSendErr(w)
          \/ ActivateSkip(w)
          \/ ActivateSend(w)
          \/ ActivateCtxDone(w)
          \/ ActivateDrop(w)

\* the API cancels the execution while the process is alive
Cancel == ~panicked /\ CancelExecution

\* WorkflowEngine.Stop: under the write lock the status goes running ->
\* stopping -> stopped and the context of every registered execution is
\* cancelled; the call waits for no goroutine
EngineStop ==
    /\ ~panicked
    /\ IF engineStatus # "running"
       THEN /\ resp' = Resp("Stop", "", engineStatus, "stopped", "engine is not running")
            /\ UNCHANGED <<engineStatus, ctxCancelled>>
       ELSE /\ engineStatus' = "stopped"
            /\ ctxCancelled' = ctxCancelled \cup executions
            /\ resp' = Resp("Stop", "", "running", "stopped", "nil")
    /\ UNCHANGED <<extVars, transitionHistory, dbWorkflows, dbExecutions, executions,
                   callPc, dagVars>>

InitOn(ws) ==
    /\ transitionHistory = << >>
    /\ resp = NoResp
    /\ dbWorkflows = [w \in WorkflowIds |-> [Status |-> "active"]]
    /\ dbExecutions = [e \in ExecIds |-> NewExecution("pending")]
    /\ engineStatus = "running"
    /\ executions = {}
    /\ ctxCancelled = {}
    /\ callPc = [c \in Callers |-> "idle"]
    /\ wf = [Nodes |-> {}, Edges |-> << >>]
    /\ NodeStates = << >>
    /\ NodeDependencies = << >>
    /\ CompletedNodes = {}
    /\ ExecutingNodes = {}
    /\ ReadyNodes = << >>
    /\ readyClosed = FALSE
    /\ errorChan = 0
    /\ errorClosed = FALSE
    /\ mainPc = "idle"
    /\ result = "none"
    /\ wpc = [w \in Workers |-> "idle"]
    /\ wnode = [w \in Workers |-> "none"]
    /\ wedge = [w \in Workers |-> 0]
    /\ panicked = FALSE
    /\ dbDefs \in [WorkflowIds -> {Definition("1.0.0", w.Nodes, w.Edges) : w \in ws}]
    /\ created = [e \in ExecIds |-> dbDefs[WorkflowOf(e)]]
    /\ NoStats
    /\ NoSched

InitDAG == InitOn(Workflows)

InitReady == InitOn(ReadyWorkflows)

NextDAG ==
    \/ Submit
    \/ Cancel
    \/ EngineStop
    \/ EngineStep

SpecDAG == InitDAG /\ [][NextDAG]_vars

\* the engine on the workflows whose nodes are reached over two paths
SpecReady == InitReady /\ [][NextDAG]_vars

(* ------------------------------------------------- claims on the engine *)

\* the upstream nodes of n: the source of each enabled edge into n whose two
\* endpoints exist
Upstream(n) ==
    {wf.Edges[i].From : i \in {j \in 1..Len(wf.Edges) :
        /\ wf.Edges[j].Enabled
        /\ wf.Edges[j].To = n
        /\ wf.Edges[j].From \in wf.Nodes
        /\ wf.Edges[j].To \in wf.Nodes}}

\* C1: a node that is or has been running has every upstream node in
\* CompletedNodes (CompletedNodes only grows, so this is "changes to running
\* only after")
C1_StartsAfterUpstream ==
    \A n \in DOMAIN NodeStates :
        NodeStates[n] # "pending" => Upstream(n) \subseteq CompletedNodes

C1_Witness ==
    \E n \in DOMAIN NodeStates :
        /\ NodeStates[n] = "running"
        /\ Cardinality(Upstream(n)) = 2
        /\ \E w \in Workers : wpc[w] = "plugin" /\ wnode[w] = n

\* every node of the workflow has executed successfully
AllNodesSucceeded ==
    /\ wf.Nodes # {}
    /\ DOMAIN NodeStates = wf.Nodes
    /\ \A n \in wf.Nodes : NodeStates[n] = "completed"
    /\ CompletedNodes = wf.Nodes

\* the execution has terminated with success
TerminatedWithSuccess ==
    /\ mainPc = "done"
    /\ result = "nil"
    /\ \A w \in Workers : wpc[w] = "exit"
    /\ E \notin executions
    /\ readyClosed

\* C2: when every node has executed successfully and nothing was cancelled,
\* the execution has terminated with success or the engine can still take a
\* step towards it
C2_SuccessTerminates ==
    (AllNodesSucceeded /\ ~ctxDone /\ ~panicked)
        => (TerminatedWithSuccess \/ ENABLED EngineStep)

\* C3: once the engine's goroutine for the execution is over, the persisted
\* status is terminal and matches the outcome: not running, and failed with
\* an error message when a node failed
C3_TerminalStatusPersisted ==
    mainPc = "done" =>
        /\ dbExecutions[E].Status \in {"completed", "failed", "cancelled"}
        /\ (\E n \in DOMAIN NodeStates : NodeStates[n] = "failed")
               => (dbExecutions[E].Status \in {"failed", "cancelled"})

\* the nodes that depend on n, directly or transitively
RECURSIVE Dependents(_, _)
Dependents(S, k) ==
    IF k = 0 THEN {}
    ELSE LET next == {m \in wf.Nodes : Upstream(m) \cap S # {}}
         IN  next \cup Dependents(next, k - 1)

\* node m is, or has been, enqueued or started
EnqueuedOrStarted(m) ==
    \/ \E i \in 1..Len(ReadyNodes) : ReadyNodes[i] = m
    \/ \E w \in Workers : wnode[w] = m
    \/ NodeStates[m] # "pending"

\* C5: no node that depends, directly or transitively, on a failed node is
\* enqueued or started
C5_FailedBlocksDependents ==
    \A n \in DOMAIN NodeStates :
        NodeStates[n] = "failed" =>
            \A m \in Dependents({n}, Cardinality(wf.Nodes)) : ~EnqueuedOrStarted(m)

\* C6: once the context is cancelled no node is enqueued into ReadyNodes and
\* no node changes from pending to running
C6_NothingStartsAfterCancel ==
    [][ctxDone =>
          /\ Len(ReadyNodes') <= Len(ReadyNodes)
          /\ \A n \in DOMAIN NodeStates :
                 (NodeStates[n] = "pending" /\ n \in DOMAIN NodeStates')
                     => NodeStates'[n] # "running"]_vars

\* C28: a worker starts a node only while the node is pending, so that every
\* node is started, and executed, at most once within the execution
C28_NodeStartedOnce ==
    [][\A w \in Workers :
          (wpc[w] = "run" /\ wpc'[w] = "plugin") => NodeStates[wnode[w]] = "pending"]_vars

\* node n has an incoming edge whose condition was false or failed to evaluate
ConditionNotMetInto(n) ==
    \E j \in conditionNotMet : wf.Edges[j].To = n

\* C29: a node is enqueued by an activation, and started by a worker, only when
\* all its upstream nodes have completed and no conditional edge into it was
\* skipped because its condition was false or failed to evaluate
C29_OnlyReadyNodesStart ==
    [][/\ \A w \in Workers :
             (wpc[w] = "run" /\ wpc'[w] = "plugin") =>
                 /\ Upstream(wnode[w]) \subseteq CompletedNodes
                 /\ ~ConditionNotMetInto(wnode[w])
       /\ \A w \in Workers :
             (wpc[w] = "activate" /\ Len(ReadyNodes') > Len(ReadyNodes)) =>
                 ~ConditionNotMetInto(ReadyNodes'[Len(ReadyNodes')])]_vars

\* node n is ready: it has upstream nodes, all of them have completed, and no
\* conditional edge into it was skipped
Ready(n) ==
    /\ Upstream(n) # {}
    /\ Upstream(n) \subseteq CompletedNodes
    /\ ~ConditionNotMetInto(n)

\* the execution is live and at rest: nothing was cancelled, no node failed,
\* ReadyNodes is empty and every worker waits in its select holding no node,
\* so that no activation can enqueue a node any more
AtRest ==
    /\ mainPc = "dag"
    /\ ~ctxDone
    /\ ~panicked
    /\ errorChan = 0
    /\ \A n \in DOMAIN NodeStates : NodeStates[n] # "failed"
    /\ ReadyNodes = << >>
    /\ \A w \in Workers : wpc[w] = "select" /\ wnode[w] = "none"

\* C30: a ready node is never lost: the execution never comes to rest with a
\* ready node that was not executed, whatever was dropped on a full ReadyNodes
C30_ReadyNodeNeverLost ==
    AtRest => \A n \in DOMAIN NodeStates : Ready(n) => NodeStates[n] # "pending"

\* the indexes of the enabled edges into n whose two endpoints exist
EdgesInto(n) ==
    {j \in 1..Len(wf.Edges) :
        /\ wf.Edges[j].Enabled
        /\ wf.Edges[j].To = n
        /\ wf.Edges[j].From \in wf.Nodes
        /\ wf.Edges[j].To \in wf.Nodes}

\* the k-th smallest element of the set S of numbers
Kth(S, k) == CHOOSE j \in S : Cardinality({i \in S : i < j}) = k - 1

\* the dependency graph is built: executeWorkflowInternal has got past
\* buildDependencyGraph
GraphBuilt == mainPc \notin {"idle", "internal"} /\ wf.Nodes # {}

\* C31: once the graph is built, NodeDependencies[n] is exactly the list of the
\* sources of the enabled edges into n whose endpoints both exist, in edge
\* order; the step that goes on to executeDAG leaves every node pending and
\* ReadyNodes holding exactly the nodes with an empty dependency list, each
\* once; and a workflow without such a node fails with no node ever enqueued
\* or started
C31_DependenciesAndStartNodes ==
    /\ [](GraphBuilt =>
            /\ DOMAIN NodeDependencies = wf.Nodes
            /\ \A n \in wf.Nodes :
                   /\ Len(NodeDependencies[n]) = Cardinality(EdgesInto(n))
                   /\ \A k \in 1..Len(NodeDependencies[n]) :
                          NodeDependencies[n][k] = wf.Edges[Kth(EdgesInto(n), k)].From
            /\ (\A n \in wf.Nodes : EdgesInto(n) # {}) =>
                   /\ result = "err"
                   /\ ReadyNodes = << >>
                   /\ \A n \in wf.Nodes : NodeStates[n] = "pending"
                   /\ \A w \in Workers : wpc[w] = "idle")
    /\ [][(mainPc = "internal" /\ mainPc' = "dag") =>
            /\ DOMAIN NodeStates' = wf.Nodes
            /\ \A n \in wf.Nodes : NodeStates'[n] = "pending"
            /\ {ReadyNodes'[i] : i \in 1..Len(ReadyNodes')}
                   = {n \in wf.Nodes : EdgesInto(n) = {}}
            /\ Len(ReadyNodes') = Cardinality({n \in wf.Nodes : EdgesInto(n) = {}})]_vars

\* the join with a disabled edge and an edge from a missing node has been set
\* up: c depends on a alone and the start nodes a and b are enqueued
C31_Witness ==
    /\ mainPc = "dag"
    /\ \E j \in 1..Len(wf.Edges) : ~wf.Edges[j].Enabled /\ wf.Edges[j].To = "c"
    /\ \E j \in 1..Len(wf.Edges) : wf.Edges[j].From \notin wf.Nodes /\ wf.Edges[j].To = "c"
    /\ NodeDependencies["c"] = << "a" >>
    /\ Len(ReadyNodes) = 2
    /\ {ReadyNodes[i] : i \in 1..Len(ReadyNodes)} = {"a", "b"}
    /\ \A n \in wf.Nodes : NodeStates[n] = "pending"

\* worker w is at a send of its activation: the target of its edge has all
\* its dependencies completed
AtSend(w) ==
    /\ wpc[w] = "activate"
    /\ areAllDependenciesCompleted(wf.Edges[wedge[w]].To)

\* C35: no worker sends on ReadyNodes after it has been closed: no step in
\* which a worker's activation is at its send on the closed channel ends in
\* the panic of that send
C35_NoSendOnClosedReady ==
    [][(readyClosed /\ \E w \in Workers : AtSend(w)) => (panicked' = panicked)]_vars

\* C11: a StartExecution the engine refuses leaves the persisted execution
\* and the live map as they were
C11_RefusalMutatesNothing ==
    [][(/\ resp' # resp
        /\ resp'.op = "StartExecution"
        /\ resp'.err = "failed to start workflow execution")
          => (dbExecutions' = dbExecutions /\ executions' = executions)]_vars

\* C14: once Stop has returned with status stopped no worker is running a node
C14_StoppedMeansDrained ==
    engineStatus = "stopped" => \A w \in Workers : wpc[w] \notin {"run", "plugin"}

(* ------------------------------- the engine: concurrent ExecuteWorkflow *)

\* ExecuteWorkflow up to the end of its read-locked section: the engine's
\* status and the size of the live map are checked
ExecuteWorkflow_check(c) ==
    /\ callPc[c] = "idle"
    /\ c \notin executions
    /\ IF ExecuteWorkflowErr # "nil"
       THEN /\ resp' = Resp("ExecuteWorkflow", "", "", "", ExecuteWorkflowErr)
            /\ UNCHANGED callPc
       ELSE /\ callPc' = [callPc EXCEPT ![c] = "checked"]
            /\ UNCHANGED resp
    /\ UNCHANGED <<extVars, transitionHistory, dbWorkflows, dbExecutions, engineStatus,
                   executions, ctxCancelled, dagVars>>

\* ExecuteWorkflow's write-locked section: the context is registered, the
\* goroutine is started and the call returns nil
ExecuteWorkflow_register(c) ==
    /\ callPc[c] = "checked"
    /\ executions' = executions \cup {c}
    /\ callPc' = [callPc EXCEPT ![c] = "idle"]
    /\ resp' = Resp("ExecuteWorkflow", "", "", "", "nil")
    /\ UNCHANGED <<extVars, transitionHistory, dbWorkflows, dbExecutions, engineStatus,
                   ctxCancelled, dagVars>>

\* the engine after InitServices has started it
InitAdmit ==
    /\ transitionHistory = << >>
    /\ resp = NoResp
    /\ dbWorkflows = [w \in WorkflowIds |-> [Status |-> "active"]]
    /\ dbExecutions = [e \in ExecIds |-> NewExecution("pending")]
    /\ engineStatus = "running"
    /\ executions = {}
    /\ ctxCancelled = {}
    /\ callPc = [c \in Callers |-> "idle"]
    /\ NoDag
    /\ NoDefs
    /\ NoSched

NextAdmit ==
    \/ \E c \in Callers : ExecuteWorkflow_check(c)
    \/ \E c \in Callers : ExecuteWorkflow_register(c)
    \/ EngineGoroutineExit

SpecAdmit == InitAdmit /\ [][NextAdmit]_vars

\* C4: the live map never holds more executions than maxConcurrency
C4_LiveMapWithinCap == Cardinality(executions) <= maxConcurrency

\* the callers of ExecuteWorkflow that run while the engine is stopped
StopCallers == 1..NumStopCallers

\* ExecuteWorkflow calls interleaved with Stop of the engine
NextStopRace ==
    \/ \E c \in StopCallers : ExecuteWorkflow_check(c)
    \/ \E c \in StopCallers : ExecuteWorkflow_register(c)
    \/ EngineGoroutineExit
    \/ EngineStop

SpecStopRace == InitAdmit /\ [][NextStopRace]_vars

\* C38: once Stop has returned, every execution in the live map has a
\* cancelled context, and no execution is registered while the engine is stopped
C38_NothingEscapesStop ==
    /\ [](engineStatus = "stopped" => executions \subseteq ctxCancelled)
    /\ [][engineStatus = "stopped" => executions' \subseteq executions]_vars

(* ------------------------------------------- triggers of one workflow *)

\* schedule.MaxInstances of the workflow that is triggered
maxInstances == 2

\* the controller's TriggerExecution for request c up to the engine's
\* read-locked check: the workflow is loaded, the execution is created pending
\* and StartExecution hands it to ExecuteWorkflow; nothing on the way counts
\* the workflow's live executions
TriggerExecution(c) ==
    /\ callPc[c] = "idle"
    /\ c \notin executions
    /\ IF ExecuteWorkflowErr # "nil"
       THEN /\ resp' = Resp("TriggerExecution", "", "pending", "running",
                            "failed to start workflow execution")
            /\ UNCHANGED callPc
       ELSE /\ callPc' = [callPc EXCEPT ![c] = "checked"]
            /\ UNCHANGED resp
    /\ UNCHANGED <<extVars, transitionHistory, dbWorkflows, dbExecutions, engineStatus,
                   executions, ctxCancelled, dagVars>>

NextTrigger ==
    \/ \E c \in Callers : TriggerExecution(c)
    \/ \E c \in Callers : ExecuteWorkflow_register(c)
    \/ EngineGoroutineExit

SpecTrigger == InitAdmit /\ [][NextTrigger]_vars

\* C17: the executions of the workflow that are live at the same time are
\* never more than the workflow's schedule.maxInstances
C17_LiveWithinMaxInstances == Cardinality(executions) <= maxInstances

(* ------------------------------- the workflow definition and its updates *)

\* the workflow CreateWorkflow is called with: a chain
CreatedWorkflow ==
    [Nodes |-> {"a", "b", "c"},
     Edges |-> << Edge("a", "b", TRUE, FALSE), Edge("b", "c", TRUE, FALSE) >>]

\* the nodes and edges UpdateWorkflow is called with: two nodes on a cycle,
\* and a fork
UpdateRequests ==
    { [Nodes |-> {"a", "b"},
       Edges |-> << Edge("a", "b", TRUE, FALSE), Edge("b", "a", TRUE, FALSE) >>],
      [Nodes |-> {"a", "b", "c"},
       Edges |-> << Edge("a", "b", TRUE, FALSE), Edge("a", "c", TRUE, FALSE) >>] }

\* UpdateWorkflow: the fields the request provides overwrite the single row of
\* the workflow; ValidateForUpdate looks at the name and the status only and
\* scheduleWorkflow does nothing
UpdateWorkflow ==
    \E id \in WorkflowIds, w \in UpdateRequests, version \in {"", "1.0.1"},
       setNodes \in BOOLEAN, setEdges \in BOOLEAN, dbOk \in BOOLEAN :
        LET existing == dbDefs[id]
            updated == Definition(IF version # "" THEN version ELSE existing.Version,
                                  IF setNodes THEN w.Nodes ELSE existing.Nodes,
                                  IF setEdges THEN w.Edges ELSE existing.Edges)
        IN  /\ IF ~dbOk
               THEN /\ resp' = Resp("UpdateWorkflow", id, "", "", "failed to update workflow")
                    /\ UNCHANGED dbDefs
               ELSE /\ dbDefs' = [dbDefs EXCEPT ![id] = updated]
                    /\ resp' = Resp("UpdateWorkflow", id, "", "", "nil")
            /\ UNCHANGED <<created, statistics, observed, evalVars, nodeVars, clients, schedVars,
                           transitionHistory, dbWorkflows, dbExecutions, engVars, dagVars>>

\* the services after InitServices, a workflow after CreateWorkflow and an
\* execution of it after CreateExecution, which pins the workflow's version
InitDef ==
    /\ transitionHistory = << >>
    /\ resp = NoResp
    /\ dbWorkflows = [w \in WorkflowIds |-> [Status |-> "inactive"]]
    /\ dbExecutions = [e \in ExecIds |-> NewExecution("pending")]
    /\ engineStatus = "running"
    /\ executions = {}
    /\ ctxCancelled = {}
    /\ callPc = [c \in Callers |-> "idle"]
    /\ NoDag
    /\ dbDefs = [w \in WorkflowIds |->
                    Definition("1.0.0", CreatedWorkflow.Nodes, CreatedWorkflow.Edges)]
    /\ created = [e \in ExecIds |-> dbDefs[WorkflowOf(e)]]
    /\ NoStats
    /\ NoSched

NextDef ==
    \/ UpdateWorkflow
    \/ ActivateWorkflow
    \/ DeactivateWorkflow
    \/ StartExecution
    \/ FailExecution
    \/ RetryExecution
    \/ EngineGoroutineExit

SpecDef == InitDef /\ [][NextDef]_vars

\* the nodes the enabled edges of a definition lead to from node n
EnabledSuccessors(def, n) ==
    {def.Edges[i].To : i \in {j \in DOMAIN def.Edges :
                                  def.Edges[j].Enabled /\ def.Edges[j].From = n}}

RECURSIVE ReachableIn(_, _, _)
\* the nodes reached from the set S over at most k more enabled edges
ReachableIn(def, S, k) ==
    IF k = 0 THEN S
    ELSE ReachableIn(def, S \cup UNION {EnabledSuccessors(def, n) : n \in S}, k - 1)

\* the enabled-edge subgraph has no cycle and every edge names existing nodes
ValidGraph(def) ==
    /\ \A i \in DOMAIN def.Edges :
           def.Edges[i].From \in def.Nodes /\ def.Edges[i].To \in def.Nodes
    /\ \A i \in DOMAIN def.Edges :
           def.Edges[i].Enabled =>
               def.Edges[i].From \notin
                   ReachableIn(def, {def.Edges[i].To}, Len(def.Edges))

\* C15: ActivateWorkflow on a workflow whose graph is not valid (a cycle over
\* enabled edges, or an edge that names a missing node) returns an error and
\* leaves the workflow's status as it was
C15_InvalidGraphNotActivated ==
    [][(resp' # resp /\ resp'.op = "ActivateWorkflow" /\ ~ValidGraph(dbDefs[resp'.id]))
          => (resp'.err # "nil" /\ dbWorkflows' = dbWorkflows)]_vars

\* C16: the nodes and edges the engine holds for a live execution are those
\* the workflow had when the execution was created, on the first run and on
\* every retry
C16_RunsPinnedDefinition ==
    \A e \in executions :
        wf = [Nodes |-> created[e].Nodes, Edges |-> created[e].Edges]

(* --------------------------------------------------------- SimpleScheduler *)

\* time.Time{}: the zero time, before every reading of the clock
ZeroTime == 0

\* time.Hour on the model's clock, which counts half hours; the ticker's
\* interval of 30 seconds is shorter than one step of the clock
Hour == 2

\* a nil *time.Time, and a pointer to the time t
Nil == {}

At(t) == {t}

Deref(p) == CHOOSE t \in p : TRUE

\* models.WorkflowSchedule
Schedule(type, cronExpression, interval, executeAt, startTime, endTime, enabled) ==
    [Type |-> type, CronExpression |-> cronExpression, Interval |-> interval,
     ExecuteAt |-> executeAt, StartTime |-> startTime, EndTime |-> endTime,
     Enabled |-> enabled]

\* the schedules AddTask is called with
Schedules ==
    { Schedule("manual", "", 0, Nil, Nil, Nil, TRUE),
      Schedule("interval", "", 1, Nil, Nil, At(2), TRUE),
      Schedule("interval", "", 1, Nil, Nil, Nil, TRUE),
      Schedule("interval", "", 2, Nil, Nil, Nil, TRUE),
      Schedule("interval", "", 0, Nil, Nil, Nil, TRUE),
      Schedule("interval", "", 1, Nil, Nil, Nil, FALSE),
      Schedule("once", "", 0, At(2), Nil, At(2), TRUE),
      Schedule("once", "", 0, Nil, Nil, Nil, TRUE),
      Schedule("cron", "0 * * * *", 0, Nil, At(4), Nil, TRUE),
      Schedule("cron", "", 0, Nil, Nil, Nil, TRUE),
      Schedule("event", "", 0, Nil, Nil, Nil, TRUE) }

\* the pointers to task objects that the map or the loop's list still hold
LiveAddrs == {tasks[t].Addr : t \in DOMAIN tasks} \cup {due[i].Addr : i \in DOMAIN due}

\* &ScheduledTask{...} in AddTask: a new object
NewTask(workflowID, schedule) ==
    [ID |-> "task_" \o workflowID, Schedule |-> schedule, NextRun |-> ZeroTime,
     LastRun |-> Nil, RunCount |-> 0, Enabled |-> schedule.Enabled,
     Addr |-> CHOOSE a \in 0..Cardinality(LiveAddrs) : a \notin LiveAddrs]

\* calculateNextRun at the time t: the error and the task after the call
\* a next-run computation that does not add the interval
calculateNextRun_noInterval(task, t) ==
    LET sch == task.Schedule
        err == CASE sch.Type = "cron" ->
                        IF sch.CronExpression = "" THEN "cron expression is empty"
                        ELSE "nil"
                 [] sch.Type = "interval" ->
                        IF sch.Interval <= 0 THEN "interval must be positive" ELSE "nil"
                 [] sch.Type = "once" ->
                        IF sch.ExecuteAt = Nil
                        THEN "execute_at is required for once schedule" ELSE "nil"
                 [] sch.Type = "manual" -> "nil"
                 [] OTHER -> "unsupported schedule type"
        nextRun == CASE sch.Type = "cron" -> t + Hour
                     [] sch.Type = "interval" -> t
                     [] sch.Type = "once" -> Deref(sch.ExecuteAt)
                     [] OTHER -> ZeroTime
        windowed == IF sch.StartTime # Nil /\ nextRun < Deref(sch.StartTime)
                    THEN Deref(sch.StartTime) ELSE nextRun
    IN  IF err # "nil" THEN [err |-> err, task |-> task]
        ELSE IF sch.EndTime # Nil /\ windowed > Deref(sch.EndTime)
        THEN [err |-> "nil", task |-> [task EXCEPT !.Enabled = FALSE]]
        ELSE [err |-> "nil", task |-> [task EXCEPT !.NextRun = windowed]]

calculateNextRun(task, t) ==
    LET sch == task.Schedule
        err == CASE sch.Type = "cron" ->
                        IF sch.CronExpression = "" THEN "cron expression is empty"
                        ELSE "nil"
                 [] sch.Type = "interval" ->
                        IF sch.Interval <= 0 THEN "interval must be positive" ELSE "nil"
                 [] sch.Type = "once" ->
                        IF sch.ExecuteAt = Nil
                        THEN "execute_at is required for once schedule" ELSE "nil"
                 [] sch.Type = "manual" -> "nil"
                 [] OTHER -> "unsupported schedule type"
        nextRun == CASE sch.Type = "cron" -> t + Hour
                     [] sch.Type = "interval" -> t + sch.Interval
                     [] sch.Type = "once" -> Deref(sch.ExecuteAt)
                     [] OTHER -> ZeroTime
        windowed == IF sch.StartTime # Nil /\ nextRun < Deref(sch.StartTime)
                    THEN Deref(sch.StartTime) ELSE nextRun
    IN  IF err # "nil" THEN [err |-> err, task |-> task]
        ELSE IF sch.EndTime # Nil /\ windowed > Deref(sch.EndTime)
        THEN [err |-> "nil", task |-> [task EXCEPT !.Enabled = FALSE]]
        ELSE [err |-> "nil", task |-> [task EXCEPT !.NextRun = windowed]]

\* triggerTask at the time t: the task after the call, and whether the
\* trigger of the workflow was emitted
triggerTask(task, t) ==
    LET counted == [task EXCEPT !.LastRun = At(t), !.RunCount = @ + 1]
        r == calculateNextRun(counted, t)
    IN  [task |-> r.task, triggered |-> r.err = "nil"]

\* s.mu is held by Stop from its first line until it returns
muLocked == stopPc = "waiting"

svcRest == <<svcVars, engVars, dagVars, defVars>>

\* the clock advances; the ticker, unless stopped, has a tick in its channel
TimePasses ==
    /\ now < MaxTime
    /\ now' = now + 1
    /\ tickReady' = (tickReady \/ schedStatus = "running")
    /\ UNCHANGED <<svcRest, schedStatus, tasks, stopChan, loopPc, due, stopPc, triggers>>

\* SimpleScheduler.Start
SchedulerStart ==
    /\ ~muLocked
    /\ IF schedStatus = "running"
       THEN /\ resp' = Resp("Start", "", schedStatus, "running",
                            "scheduler is already running")
            /\ UNCHANGED <<schedStatus, stopChan, tickReady, loopPc>>
       ELSE /\ schedStatus' = "running"
            /\ stopChan' = "open"
            /\ tickReady' = FALSE
            /\ loopPc' = "select"
            /\ resp' = Resp("Start", "", schedStatus, "running", "nil")
    /\ UNCHANGED <<transitionHistory, dbWorkflows, dbExecutions, engVars, dagVars, defVars,
                   tasks, now, due, stopPc, triggers>>

\* Stop up to wg.Wait(): the lock is taken and kept
SchedulerStop_begin ==
    /\ ~muLocked
    /\ IF schedStatus # "running"
       THEN /\ resp' = Resp("Stop", "", schedStatus, "stopped", "scheduler is not running")
            /\ UNCHANGED <<schedStatus, stopChan, stopPc>>
       ELSE /\ schedStatus' = "stopping"
            /\ stopChan' = "closed"
            /\ stopPc' = "waiting"
            /\ UNCHANGED resp
    /\ UNCHANGED <<transitionHistory, dbWorkflows, dbExecutions, engVars, dagVars, defVars,
                   tasks, now, tickReady, loopPc, due, triggers>>

\* wg.Wait() returns once the loop has returned; Stop sets the status,
\* releases the lock and returns
SchedulerStop_end ==
    /\ stopPc = "waiting"
    /\ loopPc = "none"
    /\ schedStatus' = "stopped"
    /\ stopPc' = "idle"
    /\ resp' = Resp("Stop", "", "running", "stopped", "nil")
    /\ UNCHANGED <<transitionHistory, dbWorkflows, dbExecutions, engVars, dagVars, defVars,
                   tasks, now, tickReady, stopChan, loopPc, due, triggers>>

\* AddTask; workflow.Schedule is nil or points to a schedule
AddTask ==
    \E workflowID \in WorkflowIds, sp \in {Nil} \cup {At(sch) : sch \in Schedules} :
        LET schedule == Deref(sp)
            r == calculateNextRun(NewTask(workflowID, schedule), now)
        IN
        /\ IF sp = Nil \/ ~schedule.Enabled
           THEN /\ resp' = Resp("AddTask", workflowID, "", "",
                                "workflow schedule is not enabled")
                /\ UNCHANGED tasks
           ELSE /\ ~muLocked
                /\ IF r.err # "nil"
                   THEN /\ resp' = Resp("AddTask", workflowID, "", "",
                                        "failed to calculate next run time")
                        /\ UNCHANGED tasks
                   ELSE /\ tasks' = [t \in DOMAIN tasks \cup {r.task.ID} |->
                                         IF t = r.task.ID THEN r.task ELSE tasks[t]]
                        /\ resp' = Resp("AddTask", workflowID, "", "", "nil")
        /\ UNCHANGED <<transitionHistory, dbWorkflows, dbExecutions, engVars, dagVars,
                       defVars, schedStatus, now, tickReady, stopChan, loopPc, due, stopPc,
                       triggers>>

RemoveTask ==
    \E workflowID \in WorkflowIds :
        LET taskID == "task_" \o workflowID IN
        /\ ~muLocked
        /\ IF taskID \notin DOMAIN tasks
           THEN /\ resp' = Resp("RemoveTask", workflowID, "", "", "task not found")
                /\ UNCHANGED tasks
           ELSE /\ tasks' = [t \in DOMAIN tasks \ {taskID} |-> tasks[t]]
                /\ resp' = Resp("RemoveTask", workflowID, "", "", "nil")
        /\ UNCHANGED <<transitionHistory, dbWorkflows, dbExecutions, engVars, dagVars,
                       defVars, schedStatus, now, tickReady, stopChan, loopPc, due, stopPc,
                       triggers>>

\* schedulingLoop's select takes the tick; the context is context.Background(),
\* which is never done
schedulingLoop_tick ==
    /\ loopPc = "select"
    /\ tickReady
    /\ tickReady' = FALSE
    /\ loopPc' = "check"
    /\ UNCHANGED <<svcRest, schedStatus, tasks, now, stopChan, due, stopPc, triggers>>

\* schedulingLoop's select takes the closed stop channel: the loop returns
schedulingLoop_stop ==
    /\ loopPc = "select"
    /\ stopChan = "closed"
    /\ loopPc' = "none"
    /\ UNCHANGED <<svcRest, schedStatus, tasks, now, tickReady, stopChan, due, stopPc,
                   triggers>>

\* checkAndTriggerTasks under the read lock: the tasks that are due
checkAndTriggerTasks_collect ==
    /\ loopPc = "check"
    /\ ~muLocked
    /\ \E o \in Orders({tasks[t] : t \in {u \in DOMAIN tasks :
                                               tasks[u].Enabled /\ now > tasks[u].NextRun}}) :
           /\ due' = o
           /\ loopPc' = IF o = << >> THEN "select" ELSE "trigger"
    /\ UNCHANGED <<svcRest, schedStatus, tasks, now, tickReady, stopChan, stopPc, triggers>>

\* checkAndTriggerTasks after the lock is released: triggerTask on the next
\* task of the list; the object is changed, in the map too if the map still
\* holds it
checkAndTriggerTasks_trigger ==
    /\ loopPc = "trigger"
    /\ LET task == Head(due)
           r == triggerTask(task, now)
       IN  /\ tasks' = [t \in DOMAIN tasks |->
                            IF tasks[t].Addr = task.Addr THEN r.task ELSE tasks[t]]
           /\ triggers' = IF r.triggered
                          THEN [triggers EXCEPT ![task.ID] = @ + 1] ELSE triggers
           /\ due' = Tail(due)
           /\ loopPc' = IF Tail(due) = << >> THEN "select" ELSE "trigger"
    /\ UNCHANGED <<svcRest, schedStatus, now, tickReady, stopChan, stopPc>>

\* the scheduler after InitServices has created and started it
InitSched ==
    /\ transitionHistory = << >>
    /\ resp = NoResp
    /\ dbWorkflows = [w \in WorkflowIds |-> [Status |-> "active"]]
    /\ dbExecutions = [e \in ExecIds |-> NewExecution("pending")]
    /\ engineStatus = "running"
    /\ executions = {}
    /\ ctxCancelled = {}
    /\ callPc = [c \in Callers |-> "idle"]
    /\ NoDag
    /\ NoDefs
    /\ schedStatus = "running"
    /\ tasks = << >>
    /\ now = 1
    /\ tickReady = FALSE
    /\ stopChan = "open"
    /\ loopPc = "select"
    /\ due = << >>
    /\ stopPc = "idle"
    /\ triggers = [t \in TaskIds |-> 0]

NextSched ==
    \/ TimePasses
    \/ SchedulerStart
    \/ SchedulerStop_begin
    \/ SchedulerStop_end
    \/ AddTask
    \/ RemoveTask
    \/ schedulingLoop_tick
    \/ schedulingLoop_stop
    \/ checkAndTriggerTasks_collect
    \/ checkAndTriggerTasks_trigger

SpecSched == InitSched /\ [][NextSched]_vars

(* ------------------------------------------------- workflow statistics *)

\* Workflow.UpdateStatistics on int64 nanoseconds: the quotient of Go's integer
\* division, which for the non-negative durations here is \div. The success
\* rate and the time of the last execution are left out.
\* an average that weighs the previous average with the new count
UpdateStatistics_newCount(st, execTime, success) ==
    LET total == st.TotalExecutions + 1 IN
    WorkflowStatistics(total,
                       IF success THEN st.SuccessfulRuns + 1 ELSE st.SuccessfulRuns,
                       IF success THEN st.FailedRuns ELSE st.FailedRuns + 1,
                       IF total = 1 THEN execTime
                       ELSE (st.AverageExecTime * total + execTime) \div total)

UpdateStatistics(st, execTime, success) ==
    LET total == st.TotalExecutions + 1 IN
    WorkflowStatistics(total,
                       IF success THEN st.SuccessfulRuns + 1 ELSE st.SuccessfulRuns,
                       IF success THEN st.FailedRuns ELSE st.FailedRuns + 1,
                       IF total = 1 THEN execTime
                       ELSE (st.AverageExecTime * (total - 1) + execTime) \div total)

\* WorkflowService.UpdateWorkflowStatistics: load, update, save
UpdateWorkflowStatistics ==
    \E id \in WorkflowIds, execTime \in 0..MaxDuration, success \in BOOLEAN,
       dbOk \in BOOLEAN :
        /\ statistics[id].TotalExecutions < MaxRuns
        /\ observed' = [execTime |-> execTime, success |-> success]
        /\ IF ~dbOk
           THEN /\ resp' = Resp("UpdateWorkflowStatistics", id, "", "",
                                "failed to update workflow statistics")
                /\ UNCHANGED statistics
           ELSE /\ statistics' = [statistics EXCEPT
                                      ![id] = UpdateStatistics(@, execTime, success)]
                /\ resp' = Resp("UpdateWorkflowStatistics", id, "", "", "nil")
        /\ UNCHANGED <<dbDefs, created, evalVars, nodeVars, clients, schedVars,
                       transitionHistory, dbWorkflows, dbExecutions, engVars, dagVars>>

NextStats == UpdateWorkflowStatistics

SpecStats == InitSvc /\ [][NextStats]_vars

\* C26 as the specification states it: after an update the stored average
\* times the new count equals the previous average times the count before
\* plus the duration, that is, the average is the exact quotient
C26_AverageExact ==
    [][statistics' # statistics =>
          \A w \in WorkflowIds :
              LET n == statistics'[w].TotalExecutions IN
              statistics'[w].AverageExecTime * n =
                  statistics[w].AverageExecTime * (n - 1) + observed'.execTime]_vars

\* C26 as amended: the stored average is the exact quotient rounded down to
\* whole nanoseconds
C26_AverageTruncated ==
    [][statistics' # statistics =>
          \A w \in WorkflowIds :
              LET n == statistics'[w].TotalExecutions
                  sum == statistics[w].AverageExecTime * (n - 1) + observed'.execTime
                  avg == statistics'[w].AverageExecTime
              IN  /\ n = statistics[w].TotalExecutions + 1
                  /\ avg * n <= sum
                  /\ sum < (avg + 1) * n]_vars

\* a second or later run was averaged in and the quotient was not exact
C26_Witness ==
    \E w \in WorkflowIds :
        /\ statistics[w].TotalExecutions = 2
        /\ statistics[w].AverageExecTime = 1
        /\ observed.execTime = 3
        /\ resp.op = "UpdateWorkflowStatistics"
        /\ resp.err = "nil"

(* ------------------------------------------------ edge condition evaluator *)

\* strings are sequences of characters; strings.Fields splits one around runs
\* of spaces
RECURSIVE FieldsFrom(_, _, _)
FieldsFrom(chars, word, words) ==
    LET closed == IF word = << >> THEN words ELSE Append(words, word) IN
    IF chars = << >> THEN closed
    ELSE IF Head(chars) = " " THEN FieldsFrom(Tail(chars), << >>, closed)
    ELSE FieldsFrom(Tail(chars), Append(word, Head(chars)), words)

Fields(str) == FieldsFrom(str, << >>, << >>)

Digits == << "0", "1", "2", "3", "4", "5", "6", "7", "8", "9" >>

IsDigit(c) == \E d \in DOMAIN Digits : Digits[d] = c

DigitValue(c) == (CHOOSE d \in DOMAIN Digits : Digits[d] = c) - 1

RECURSIVE ScanDigits(_, _, _)
\* the leading digits of chars: how many there are and their value
ScanDigits(chars, count, value) ==
    IF chars = << >> \/ ~IsDigit(Head(chars)) THEN [count |-> count, value |-> value]
    ELSE ScanDigits(Tail(chars), count + 1, value * 10 + DigitValue(Head(chars)))

\* fmt.Sscanf(valueStr, "%d", &targetNum): an optional sign and the digits
\* that follow; what comes after the digits is not looked at
Sscanf_d(str) ==
    LET signed == str # << >> /\ Head(str) \in {"-", "+"}
        scanned == ScanDigits(IF signed THEN Tail(str) ELSE str, 0, 0)
    IN  [ok |-> scanned.count > 0,
         n |-> IF signed /\ Head(str) = "-" THEN 0 - scanned.value ELSE scanned.value]

\* a value of the variables map: an int, an int64, a float64 (in tenths), a
\* string or a bool
Value(kind, val) == [kind |-> kind, val |-> val]

\* int(f) of a float64 given in tenths: the fraction is cut off
IntOfFloat(tenths) == IF tenths >= 0 THEN tenths \div 10 ELSE 0 - ((0 - tenths) \div 10)

\* Edge.evaluateSimpleCondition: the value and the error
evaluateSimpleCondition(expr, context) ==
    LET parts == Fields(expr)
        field == parts[1]
        operator == parts[2]
        contextValue == context[field]
        contextNum == IF contextValue.kind = "int" THEN contextValue.val
                      ELSE IntOfFloat(contextValue.val)
        target == Sscanf_d(parts[3])
        Return(value, err) == [value |-> value, err |-> err]
    IN  IF expr = << "t", "r", "u", "e" >> THEN Return(TRUE, "nil")
        ELSE IF expr = << "f", "a", "l", "s", "e" >> THEN Return(FALSE, "nil")
        ELSE IF Len(parts) # 3 THEN Return(FALSE, "invalid expression format")
        ELSE IF field \notin DOMAIN context THEN Return(FALSE, "nil")
        ELSE IF contextValue.kind \notin {"int", "float64"}
        THEN Return(FALSE, "cannot compare non-numeric value")
        ELSE IF ~target.ok THEN Return(FALSE, "invalid target value")
        ELSE CASE operator = << ">" >> -> Return(contextNum > target.n, "nil")
               [] operator = << ">", "=" >> -> Return(contextNum >= target.n, "nil")
               [] operator = << "<" >> -> Return(contextNum < target.n, "nil")
               [] operator = << "<", "=" >> -> Return(contextNum <= target.n, "nil")
               [] operator \in { << "=", "=" >>, << "=" >> } ->
                      Return(contextNum = target.n, "nil")
               [] operator = << "!", "=" >> -> Return(contextNum # target.n, "nil")
               [] OTHER -> Return(FALSE, "unsupported operator")

\* the expressions of the conditional edges
Expressions ==
    { << "t", "r", "u", "e" >>,
      << "f", "a", "l", "s", "e" >>,
      << >>,
      << " ", "t", "r", "u", "e" >>,
      << "x" >>,
      << "x", " ", ">" >>,
      << "x", " ", ">", " ", "1", " ", "2" >>,
      << "x", " ", ">", " ", "1" >>,
      << "x", " ", ">", "=", " ", "2" >>,
      << "x", " ", "<", " ", "2" >>,
      << "x", " ", "<", "=", " ", "2" >>,
      << "x", " ", "=", "=", " ", "2" >>,
      << "x", " ", "=", " ", "2" >>,
      << "x", " ", "!", "=", " ", "2" >>,
      << "y", " ", ">", " ", "1" >>,
      << "s", " ", ">", " ", "1" >>,
      << "f", " ", ">", " ", "1" >>,
      << "f", " ", "=", "=", " ", "2" >>,
      << "g", " ", "<", " ", "0" >>,
      << "g", " ", "=", "=", " ", "0" >>,
      << "l", " ", "=", "=", " ", "2" >>,
      << "b", " ", "=", "=", " ", "1" >>,
      << "x", " ", "~", " ", "1" >>,
      << "x", " ", ">", " ", "a" >>,
      << "x", " ", ">", " ", "2", "a" >>,
      << "x", " ", " ", ">", " ", " ", "1" >>,
      << "x", " ", ">", " ", "-", "1" >>,
      << "s", " ", ">", " ", "a" >> }

\* the variables of an execution: x is an int, l an int64, f the float64 2.5,
\* g the float64 -0.5, s a string and b a bool
Variables(x) ==
    [name \in { << "x" >>, << "l" >>, << "f" >>, << "g" >>, << "s" >>, << "b" >> } |->
        CASE name = << "x" >> -> Value("int", x)
          [] name = << "l" >> -> Value("int64", 2)
          [] name = << "f" >> -> Value("float64", 25)
          [] name = << "g" >> -> Value("float64", 0 - 5)
          [] name = << "s" >> -> Value("string", 0)
          [] OTHER -> Value("bool", 1)]

Contexts == { << >> } \cup { Variables(x) : x \in 0..3 }

\* evaluateEdgeCondition on a conditional edge of type simple with an enabled
\* condition: the variables are copied and the expression is evaluated
evaluateEdgeCondition ==
    \E expr \in Expressions, context \in Contexts :
        /\ condExpr' = expr
        /\ condContext' = context
        /\ condResult' = evaluateSimpleCondition(expr, context)
        /\ UNCHANGED conditionNotMet
        /\ UNCHANGED <<dbDefs, created, statistics, observed, nodeVars, clients, schedVars,
                       svcVars, engVars, dagVars>>

NextEval == evaluateEdgeCondition

SpecEval == InitAdmit /\ [][NextEval]_vars

(* ------------------------------------- concurrent requests to the service *)

\* the status operations of the Workflow Service and their target status
StatusOps ==
    { <<"ActivateWorkflow", "active">>, <<"DeactivateWorkflow", "inactive">>,
      <<"PauseWorkflow", "paused">>, <<"ResumeWorkflow", "active">> }

\* a status operation, first half: GetWorkflow loads the workflow row
WorkflowStatusOp_load(c) ==
    \E id \in WorkflowIds, o \in StatusOps :
        /\ clients[c].pc = "idle"
        /\ clients' = [clients EXCEPT ![c] =
                           [@ EXCEPT !.pc = "status", !.op = o[1], !.id = id,
                                     !.target = o[2], !.status = dbWorkflows[id].Status,
                                     !.stats = statistics[id]]]
        /\ UNCHANGED <<dbDefs, created, statistics, observed, evalVars, nodeVars, schedVars,
                       svcVars, engVars, dagVars>>

\* a status operation, second half: the status that was loaded is validated,
\* the loaded row is saved whole with the new status, and the transition from
\* the loaded status is recorded
WorkflowStatusOp_save(c) ==
    \E dbOk \in BOOLEAN :
        LET id == clients[c].id
            from == clients[c].status
            target == clients[c].target
        IN  /\ clients[c].pc = "status"
            /\ IF ValidateWorkflowTransition(from, target) # "nil"
               THEN /\ resp' = Resp(clients[c].op, id, from, target,
                                    "invalid state transition")
                    /\ UNCHANGED <<transitionHistory, dbWorkflows, statistics, tasks>>
               ELSE IF ~dbOk
               THEN /\ resp' = Resp(clients[c].op, id, from, target,
                                    "failed to save workflow")
                    /\ UNCHANGED <<transitionHistory, dbWorkflows, statistics, tasks>>
               ELSE /\ dbWorkflows' = [dbWorkflows EXCEPT ![id].Status = target]
                    /\ statistics' = [statistics EXCEPT ![id] = clients[c].stats]
                    /\ transitionHistory' =
                           RecordWorkflowTransition(transitionHistory, id, from, target)
                    /\ tasks' = IF target = "active" THEN scheduleWorkflow(tasks)
                                ELSE unscheduleWorkflow(tasks)
                    /\ resp' = Resp(clients[c].op, id, from, target, "nil")
            /\ Len(transitionHistory') <= MaxHistory
            /\ clients' = [clients EXCEPT ![c] = [@ EXCEPT !.pc = "idle"]]
            /\ UNCHANGED <<dbDefs, created, observed, evalVars, nodeVars, schedRest,
                           dbExecutions, engVars, dagVars>>

NextStatusRace ==
    \E c \in Clients : WorkflowStatusOp_load(c) \/ WorkflowStatusOp_save(c)

\* the status operations of concurrent requests on a created workflow
SpecStatusRace == InitSM /\ [][NextStatusRace]_vars

\* the sum of f over the clients 1..n
RECURSIVE SumOver(_, _)
SumOver(f, n) == IF n = 0 THEN 0 ELSE f[n] + SumOver(f, n - 1)

\* the statistics updates that have returned without error
Updates == SumOver([c \in Clients |-> clients[c].updates], NumClients)

\* the statistics updates in flight
InFlight == Cardinality({c \in Clients : clients[c].pc = "stats"})

\* UpdateWorkflowStatistics, first half: GetWorkflow loads the workflow row
UpdateWorkflowStatistics_load(c) ==
    \E id \in WorkflowIds, execTime \in 0..MaxDuration, success \in BOOLEAN :
        /\ clients[c].pc = "idle"
        /\ Updates + InFlight < MaxRuns
        /\ clients' = [clients EXCEPT ![c] =
                           [@ EXCEPT !.pc = "stats", !.op = "UpdateWorkflowStatistics",
                                     !.id = id, !.status = dbWorkflows[id].Status,
                                     !.stats = statistics[id], !.execTime = execTime,
                                     !.success = success]]
        /\ UNCHANGED <<dbDefs, created, statistics, observed, evalVars, nodeVars, schedVars,
                       svcVars, engVars, dagVars>>

\* UpdateWorkflowStatistics, second half: the loaded statistics are updated
\* and the loaded row is saved whole
UpdateWorkflowStatistics_save(c) ==
    \E dbOk \in BOOLEAN :
        LET id == clients[c].id IN
        /\ clients[c].pc = "stats"
        /\ observed' = [execTime |-> clients[c].execTime, success |-> clients[c].success]
        /\ IF ~dbOk
           THEN /\ resp' = Resp("UpdateWorkflowStatistics", id, "", "",
                                "failed to update workflow statistics")
                /\ clients' = [clients EXCEPT ![c] =
                                   [@ EXCEPT !.pc = "idle", !.execTime = 0,
                                             !.success = FALSE]]
                /\ UNCHANGED <<statistics, dbWorkflows>>
           ELSE /\ statistics' =
                       [statistics EXCEPT
                           ![id] = UpdateStatistics(clients[c].stats, clients[c].execTime,
                                                    clients[c].success)]
                /\ dbWorkflows' = [dbWorkflows EXCEPT ![id].Status = clients[c].status]
                /\ resp' = Resp("UpdateWorkflowStatistics", id, "", "", "nil")
                /\ clients' = [clients EXCEPT ![c] =
                                   [@ EXCEPT !.pc = "idle", !.execTime = 0,
                                             !.success = FALSE, !.updates = @ + 1]]
        /\ UNCHANGED <<dbDefs, created, evalVars, nodeVars, schedVars, transitionHistory,
                       dbExecutions, engVars, dagVars>>

NextStatsRace ==
    \E c \in Clients : UpdateWorkflowStatistics_load(c) \/ UpdateWorkflowStatistics_save(c)

\* the statistics updates of executions that finish concurrently
SpecStatsRace == InitSM /\ [][NextStatsRace]_vars

\* the entries of the history for one entity, in order
HistoryOf(entityType, id) ==
    SelectSeq(transitionHistory,
              LAMBDA t : t.EntityType = entityType /\ t.EntityID = id)

\* the entries h start at status first, follow one another and end at status
\* current
Mirrors(h, first, current) ==
    /\ \A i \in 2..Len(h) : h[i].FromStatus = h[i - 1].ToStatus
    /\ Len(h) > 0 => (h[1].FromStatus = first /\ h[Len(h)].ToStatus = current)

\* C36: the history of every workflow and of every execution mirrors its
\* persisted status: it starts at the creation status, each entry starts where
\* the previous one ended, and the last entry ends at the persisted status
C36_HistoryMirrorsStatus ==
    /\ \A id \in WorkflowIds :
           Mirrors(HistoryOf("workflow", id), "inactive", dbWorkflows[id].Status)
    /\ \A id \in ExecIds :
           Mirrors(HistoryOf("execution", id), "pending", dbExecutions[id].Status)

\* C39: when no statistics update is in flight, every update that returned
\* without error has been counted exactly once: TotalExecutions is the number
\* of those updates and is the sum of SuccessfulRuns and FailedRuns
C39_EveryRunCounted ==
    (\A c \in Clients : clients[c].pc = "idle") =>
        \A id \in WorkflowIds :
            /\ statistics[id].TotalExecutions = Updates
            /\ statistics[id].TotalExecutions
                   = statistics[id].SuccessfulRuns + statistics[id].FailedRuns

(* ------------------------------------------- executeNode: the timeout *)

\* time.Second and time.Minute, in seconds
Second == 1

Minute == 60

\* the durations a timeout is configured with, in seconds
Timeouts == {0, 1, 29, 30, 31, 60, 299, 300, 301, 600}

\* the nodes executeNode is called on: without Config, without TimeoutConfig,
\* and with each ExecutionTimeout
NodeConfigs ==
    {[Config |-> Nil], [Config |-> At([TimeoutConfig |-> Nil])]}
        \cup {[Config |-> At([TimeoutConfig |-> At([ExecutionTimeout |-> t])])] :
                 t \in Timeouts}

\* Node.GetExecutionTimeout
GetExecutionTimeout(n) ==
    IF n.Config = Nil THEN 5 * Minute
    ELSE IF Deref(n.Config).TimeoutConfig = Nil THEN 5 * Minute
    ELSE IF Deref(Deref(n.Config).TimeoutConfig).ExecutionTimeout > 0
    THEN Deref(Deref(n.Config).TimeoutConfig).ExecutionTimeout
    ELSE 5 * Minute

\* executeNode: the timeout of the context the plugin is called with
executeNodeTimeout(n) ==
    LET timeout == GetExecutionTimeout(n)
    IN  IF timeout = 0 THEN Second * 30 ELSE timeout

\* executeNode on a node of a workflow whose configuration carries a timeout
executeNode ==
    \E node \in NodeConfigs, workflowTimeout \in Timeouts :
        /\ nodeRun' = [node |-> node, workflowTimeout |-> workflowTimeout,
                       timeout |-> executeNodeTimeout(node)]
        /\ UNCHANGED <<execVariables, outputs>>
        /\ UNCHANGED <<dbDefs, created, statistics, observed, evalVars, clients, schedVars,
                       svcVars, engVars, dagVars>>

NextTimeout == executeNode

SpecTimeout == InitAdmit /\ [][NextTimeout]_vars

\* the timeout the node configures: none when there is no configuration or
\* the configured value is not positive
ConfiguredTimeout(n) ==
    IF n.Config = Nil THEN {}
    ELSE IF Deref(n.Config).TimeoutConfig = Nil THEN {}
    ELSE {t \in {Deref(Deref(n.Config).TimeoutConfig).ExecutionTimeout} : t > 0}

\* the smallest number of the non-empty set S
Minimum(S) == CHOOSE x \in S : \A y \in S : x <= y

\* C33: the timeout of a plugin call is the smallest of the node's configured
\* timeout, the workflow's task timeout and the engine default of 30 seconds:
\* never more than 30 seconds, and 30 seconds when nothing is configured
C33_TimeoutIsMinimum ==
    nodeRun.timeout # 0 =>
        nodeRun.timeout =
            Minimum({30} \cup ConfiguredTimeout(nodeRun.node)
                         \cup {t \in {nodeRun.workflowTimeout} : t > 0})

(* ------------------------------------ processNodeOutput: the variables *)

\* the values a plugin returns under an output key: 1..MaxValue
OutputValues == 1..MaxValue

\* the ids of the nodes, as strings of characters
NodeIds == { << "a" >>, << "b" >>, << "a", "_", "b" >> }

\* the keys of a plugin's output data
OutputKeys == { << "x" >>, << "b", "_", "x" >>, << "o", "u", "t", "p", "u", "t" >> }

\* the output data a plugin returns: nil, or a map from some keys to values
OutputData ==
    {Nil} \cup UNION {{At(d) : d \in [K -> OutputValues]} : K \in SUBSET OutputKeys}

\* a value of the variables map: a plain value, or a whole output map given
\* by its entries
PlainValue(v) == [isMap |-> FALSE, plain |-> v, entries |-> {}]

MapValue(data) ==
    [isMap |-> TRUE, plain |-> 0, entries |-> {<<k, data[k]>> : k \in DOMAIN data}]

\* fmt.Sprintf("%s_%s", nodeID, key)
GlobalKey(nodeID, key) == nodeID \o << "_" >> \o key

\* fmt.Sprintf("%s_output", nodeID)
WholeOutputKey(nodeID) == nodeID \o << "_", "o", "u", "t", "p", "u", "t" >>

\* processNodeOutput: the variables after the call; the keys of one call are
\* distinct, so the order of the range does not matter, and the whole output
\* is written last
processNodeOutput(variables, nodeID, outputData) ==
    IF outputData = Nil THEN variables
    ELSE LET data == Deref(outputData)
             keys == {GlobalKey(nodeID, k) : k \in DOMAIN data}
         IN  [g \in DOMAIN variables \cup keys \cup {WholeOutputKey(nodeID)} |->
                 IF g = WholeOutputKey(nodeID) THEN MapValue(data)
                 ELSE IF g \in keys
                 THEN PlainValue(data[CHOOSE k \in DOMAIN data : GlobalKey(nodeID, k) = g])
                 ELSE variables[g]]

\* executeNode after the plugin of a node that has not run yet returned with
\* success: the output is merged into the variables
executeNode_output ==
    \E nodeID \in NodeIds \ DOMAIN outputs, outputData \in OutputData :
        /\ execVariables' = processNodeOutput(execVariables, nodeID, outputData)
        /\ outputs' = [n \in DOMAIN outputs \cup {nodeID} |->
                          IF n = nodeID THEN outputData ELSE outputs[n]]
        /\ UNCHANGED nodeRun
        /\ UNCHANGED <<dbDefs, created, statistics, observed, evalVars, clients, schedVars,
                       svcVars, engVars, dagVars>>

NextOutput == executeNode_output

SpecOutput == InitAdmit /\ [][NextOutput]_vars

\* C34: the output of every node that has succeeded is in the variables: each
\* output key k of node n under n_k with the value the plugin returned, and the
\* whole output map under n_output; no write of another node, of another key
\* or of the whole output has replaced it
C34_OutputsNeverCollide ==
    \A n \in DOMAIN outputs :
        outputs[n] # Nil =>
            LET data == Deref(outputs[n]) IN
            /\ \A k \in DOMAIN data :
                   /\ n \o << "_" >> \o k \in DOMAIN execVariables
                   /\ execVariables[n \o << "_" >> \o k] = PlainValue(data[k])
            /\ n \o << "_", "o", "u", "t", "p", "u", "t" >> \in DOMAIN execVariables
            /\ execVariables[n \o << "_", "o", "u", "t", "p", "u", "t" >>] = MapValue(data)

\* a token the specification calls an integer: digits, after an optional sign
IsInteger(str) ==
    LET body == IF str # << >> /\ Head(str) = "-" THEN Tail(str) ELSE str IN
    body # << >> /\ \A i \in DOMAIN body : IsDigit(body[i])

\* the operators of the specification, and the comparison each one stands for
Holds(operator, a, b) ==
    CASE operator = << ">" >> -> a > b
      [] operator = << ">", "=" >> -> a >= b
      [] operator = << "<" >> -> a < b
      [] operator = << "<", "=" >> -> a <= b
      [] operator = << "!", "=" >> -> a # b
      [] OTHER -> a = b

SpecOperators ==
    { << ">" >>, << ">", "=" >>, << "<" >>, << "<", "=" >>, << "=", "=" >>, << "=" >>,
      << "!", "=" >> }

\* C27: the evaluator returns the literal's value for true and false, an
\* InvalidExpression error for every other expression without exactly three
\* tokens, and for field OP integer the comparison of the field's number (a
\* float cut to an int), or false without an error when the field is
\* unresolved or holds no number
C27_EvaluatorAsSpecified ==
    condResult.err # "none" =>
        LET parts == Fields(condExpr)
            v == condContext[parts[1]]
            num == IF v.kind = "float64" THEN IntOfFloat(v.val) ELSE v.val
        IN  IF condExpr = << "t", "r", "u", "e" >>
            THEN condResult = [value |-> TRUE, err |-> "nil"]
            ELSE IF condExpr = << "f", "a", "l", "s", "e" >>
            THEN condResult = [value |-> FALSE, err |-> "nil"]
            ELSE IF Len(parts) # 3
            THEN condResult.err = "invalid expression format"
            ELSE (parts[2] \in SpecOperators /\ IsInteger(parts[3])) =>
                     IF parts[1] \notin DOMAIN condContext
                        \/ v.kind \notin {"int", "int64", "float64"}
                     THEN condResult = [value |-> FALSE, err |-> "nil"]
                     ELSE condResult =
                              [value |-> Holds(parts[2], num, Sscanf_d(parts[3]).n),
                               err |-> "nil"]

(* ----------------------------- the binding of workflows to the scheduler *)

\* Workflow.CanExecute
CanExecute(w) == w.Status = "active" /\ w.Schedule # Nil /\ Deref(w.Schedule).Enabled

\* the services after InitServices and a workflow after CreateWorkflow, with
\* a schedule or without one; the scheduler is running
InitBind ==
    /\ transitionHistory = << >>
    /\ resp = NoResp
    /\ dbWorkflows \in [WorkflowIds ->
                           [Status : {"inactive"},
                            Schedule : {Nil} \cup {At(sch) : sch \in Schedules}]]
    /\ dbExecutions = [e \in ExecIds |-> NewExecution("pending")]
    /\ engineStatus = "running"
    /\ executions = {}
    /\ ctxCancelled = {}
    /\ callPc = [c \in Callers |-> "idle"]
    /\ NoDag
    /\ NoDefs
    /\ schedStatus = "running"
    /\ tasks = << >>
    /\ now = 1
    /\ tickReady = FALSE
    /\ stopChan = "open"
    /\ loopPc = "select"
    /\ due = << >>
    /\ stopPc = "idle"
    /\ triggers = [t \in TaskIds |-> 0]

NextBind ==
    \/ ActivateWorkflow
    \/ DeactivateWorkflow
    \/ PauseWorkflow
    \/ ResumeWorkflow
    \/ AddTask
    \/ RemoveTask

SpecBind == InitBind /\ [][NextBind]_vars

\* C24: after ActivateWorkflow has returned nil for a workflow with an enabled
\* schedule the scheduler holds a task for the workflow, and after
\* DeactivateWorkflow or PauseWorkflow has returned nil it holds none
C24_TaskSetFollowsStatus ==
    [][(resp' # resp /\ resp'.err = "nil") =>
          LET w == dbWorkflows'[resp'.id]
              taskID == "task_" \o resp'.id
          IN  /\ (resp'.op = "ActivateWorkflow" /\ CanExecute(w)) => taskID \in DOMAIN tasks'
              /\ resp'.op \in {"DeactivateWorkflow", "PauseWorkflow"} =>
                     taskID \notin DOMAIN tasks']_vars

\* C18: while Stop waits for the scheduling loop, the loop can take a step or
\* Stop can return: a Stop that was called on a running scheduler is never left
\* waiting for a loop that cannot move
C18_StopCanReturn ==
    stopPc = "waiting" =>
        ENABLED (\/ schedulingLoop_tick
                 \/ schedulingLoop_stop
                 \/ checkAndTriggerTasks_collect
                 \/ checkAndTriggerTasks_trigger
                 \/ SchedulerStop_end)

\* C19: a registered manual task keeps nextRun = zero and is never fired: no
\* step records a run of it and no step emits a trigger for a manual task
C19_ManualNeverFires ==
    [][/\ \A t \in DOMAIN tasks' :
              tasks'[t].Schedule.Type = "manual" =>
                  /\ tasks'[t].NextRun = ZeroTime
                  /\ tasks'[t].LastRun = Nil
                  /\ tasks'[t].RunCount = 0
       /\ triggers' # triggers => Head(due).Schedule.Type # "manual"]_vars

\* C20: a trigger is emitted for a task only at a time that is not later than
\* the schedule's endTime, and not in a firing whose next-run computation
\* disables the task
C20_NoTriggerAfterEndTime ==
    [][triggers' # triggers =>
          LET task == Head(due) IN
          task.Schedule.EndTime # Nil =>
              /\ now <= Deref(task.Schedule.EndTime)
              /\ triggerTask(task, now).task.Enabled]_vars

\* C21: when a task of type interval that has run before is fired again, the
\* time of the firing, which becomes its lastRun, is at least the previous
\* lastRun plus the schedule's interval
C21_IntervalBetweenFirings ==
    [][(loopPc = "trigger" /\ due' # due) =>
          LET task == Head(due) IN
          (task.Schedule.Type = "interval" /\ task.LastRun # Nil) =>
              now >= Deref(task.LastRun) + task.Schedule.Interval]_vars

\* an interval task has been fired a second time, and the map shows its new
\* lastRun
C21_Witness ==
    \E t \in DOMAIN tasks :
        /\ tasks[t].Schedule.Type = "interval"
        /\ tasks[t].RunCount >= 2
        /\ tasks[t].LastRun = At(now)
        /\ loopPc = "select"

\* C37: a task whose schedule type is once is fired only while it has never
\* run: no tick fires it a second time and its RunCount never exceeds 1
C37_OnceFiresOnce ==
    /\ [][(loopPc = "trigger" /\ due' # due) =>
             (Head(due).Schedule.Type = "once" => Head(due).RunCount = 0)]_vars
    /\ [](\A t \in DOMAIN tasks : tasks[t].Schedule.Type = "once" => tasks[t].RunCount <= 1)

\* C22: a task is fired (its lastRun and runCount are changed and its trigger
\* emitted) only while the scheduler holds a task for its workflow: never
\* after RemoveTask has deregistered it
C22_RemovedNeverFires ==
    [][(loopPc = "trigger" /\ due' # due) => Head(due).ID \in DOMAIN tasks]_vars

\* the schedules the specification lets AddTask register at the time t
Registrable(sch, t) ==
    /\ sch.Enabled
    /\ sch.Type = "cron" => sch.CronExpression # ""
    /\ sch.Type = "interval" => sch.Interval > 0
    /\ sch.Type = "once" => (sch.ExecuteAt # Nil /\ Deref(sch.ExecuteAt) > t)

\* C23: AddTask returns nil only for a workflow with an enabled schedule whose
\* first next-run can be computed (cron with an expression, a positive
\* interval, once with an executeAt in the future), and a rejected AddTask
\* leaves the task set as it was
C23_AddTaskRejectsBadSchedule ==
    [][(resp' # resp /\ resp'.op = "AddTask") =>
          IF resp'.err = "nil"
          THEN Registrable(tasks'["task_" \o resp'.id].Schedule, now)
          ELSE tasks' = tasks]_vars

\* C25: the step that fires a task hands an execution of the task's workflow
\* to the services: an execution record is created or started, or the engine
\* registers one
C25_FiringCreatesExecution ==
    [][(loopPc = "trigger" /\ due' # due) =>
          (dbExecutions' # dbExecutions \/ executions' # executions)]_vars

(* ------------------------- claims on the State Manager and the services *)

\* the transition tables as the specification states them
SpecWorkflowTable ==
    { <<"inactive", "active">>, <<"inactive", "disabled">>,
      <<"active", "inactive">>, <<"active", "paused">>, <<"active", "disabled">>,
      <<"paused", "active">>, <<"paused", "inactive">>, <<"paused", "disabled">>,
      <<"disabled", "inactive">> }

SpecExecutionTable ==
    { <<"pending", "running">>, <<"pending", "cancelled">>,
      <<"running", "completed">>, <<"running", "failed">>, <<"running", "cancelled">>,
      <<"failed", "pending">> }

InvalidTransitionErrors ==
    {"invalid from status", "invalid workflow state transition",
     "invalid execution state transition"}

\* C7: validate accepts a pair exactly when it is in the table, and returns
\* an invalid-transition error for every other pair
C7_ValidateMatchesTable ==
    /\ resp.op = "ValidateWorkflowTransition" =>
           IF <<resp.from, resp.to>> \in SpecWorkflowTable
           THEN resp.err = "nil"
           ELSE resp.err \in InvalidTransitionErrors
    /\ resp.op = "ValidateExecutionTransition" =>
           IF <<resp.from, resp.to>> \in SpecExecutionTable
           THEN resp.err = "nil"
           ELSE resp.err \in InvalidTransitionErrors

C7_Witness ==
    /\ resp.op = "ValidateExecutionTransition"
    /\ resp.from = "timeout"
    /\ resp.to = "pending"
    /\ resp.err = "invalid from status"

\* the pair of a history entry is in the table of its entity type
EntryInTable(t) ==
    \/ t.EntityType = "workflow" /\ <<t.FromStatus, t.ToStatus>> \in SpecWorkflowTable
    \/ t.EntityType = "execution" /\ <<t.FromStatus, t.ToStatus>> \in SpecExecutionTable

Appended ==
    SubSeq(transitionHistory', Len(transitionHistory) + 1, Len(transitionHistory'))

\* tail is one entry for the entity's transition from old to new
OneEntryFor(tail, entityType, id, old, new) ==
    tail = << StateTransition(entityType, id, old, new) >>

\* C9: every step that changes a persisted status appends exactly one entry,
\* for that transition, to the history
C9_EveryChangeRecorded ==
    [][/\ \A id \in WorkflowIds :
              dbWorkflows'[id].Status # dbWorkflows[id].Status
                  => OneEntryFor(Appended, "workflow", id, dbWorkflows[id].Status,
                                 dbWorkflows'[id].Status)
       /\ \A id \in ExecIds :
              dbExecutions'[id].Status # dbExecutions[id].Status
                  => OneEntryFor(Appended, "execution", id, dbExecutions[id].Status,
                                 dbExecutions'[id].Status)]_vars

\* the status each status operation moves its entity to
Target(op) ==
    CASE op = "ActivateWorkflow"   -> "active"
      [] op = "DeactivateWorkflow" -> "inactive"
      [] op = "PauseWorkflow"      -> "paused"
      [] op = "ResumeWorkflow"     -> "active"
      [] op = "StartExecution"     -> "running"
      [] op = "CompleteExecution"  -> "completed"
      [] op = "FailExecution"      -> "failed"
      [] op = "CancelExecution"    -> "cancelled"
      [] op = "RetryExecution"     -> "pending"

WorkflowOps == {"ActivateWorkflow", "DeactivateWorkflow", "PauseWorkflow", "ResumeWorkflow"}

ExecutionOps ==
    {"StartExecution", "CompleteExecution", "FailExecution", "CancelExecution",
     "RetryExecution"}

\* the operations that ask the State Manager
ValidatedOps == WorkflowOps \cup {"CompleteExecution", "FailExecution", "CancelExecution"}

\* C32: a history entry is appended only by a step that persists its
\* transition: the persisted status of the entry's entity goes from the entry's
\* from-status to its to-status in the same operation, so that a failed persist
\* leaves no entry
C32_RecordOnlyAfterPersist ==
    [][\A i \in 1..Len(Appended) :
          LET t == Appended[i] IN
          /\ t.EntityType = "workflow" =>
                 /\ dbWorkflows[t.EntityID].Status = t.FromStatus
                 /\ dbWorkflows'[t.EntityID].Status = t.ToStatus
          /\ t.EntityType = "execution" =>
                 /\ dbExecutions[t.EntityID].Status = t.FromStatus
                 /\ dbExecutions'[t.EntityID].Status = t.ToStatus]_vars

\* C10: a status operation whose transition from the entity's current status
\* is not in the table returns an error (the illegal-transition error when it
\* is an operation that asks the State Manager) and leaves the persisted
\* entities and the history unchanged
C10_IllegalOpRejected ==
    [][(/\ resp' # resp
        /\ \/ /\ resp'.op \in WorkflowOps
              /\ <<dbWorkflows[resp'.id].Status, Target(resp'.op)>> \notin SpecWorkflowTable
           \/ /\ resp'.op \in ExecutionOps
              /\ <<dbExecutions[resp'.id].Status, Target(resp'.op)>> \notin SpecExecutionTable)
          => /\ resp'.err # "nil"
             /\ resp'.op \in ValidatedOps => resp'.err = "invalid state transition"
             /\ UNCHANGED <<dbWorkflows, dbExecutions, transitionHistory>>]_vars

C10_Witness ==
    /\ resp.op = "CompleteExecution"
    /\ resp.from = "completed"
    /\ resp.err = "invalid state transition"
    /\ dbExecutions[resp.id].Status = "completed"
    /\ Len(transitionHistory) >= 2

\* C12: CancelExecution on a terminal execution returns success and changes
\* neither the execution nor the history
C12_CancelIdempotent ==
    [][(/\ resp' # resp
        /\ resp'.op = "CancelExecution"
        /\ dbExecutions[resp'.id].Status \in {"completed", "failed", "cancelled"})
          => /\ resp'.err = "nil"
             /\ UNCHANGED <<dbExecutions, transitionHistory>>]_vars

\* C13: RetryExecution returns nil only on a failed execution whose RetryCount
\* is below MaxRetries, which it leaves resubmitted with RetryCount + 1 and
\* the completion timestamp and the error cleared; whenever it changes the
\* execution it is to that pending record or to its started successor; on any
\* other execution it returns an error and changes nothing
C13_RetryOnlyWhenAllowed ==
    [][(resp' # resp /\ resp'.op = "RetryExecution") =>
          LET e  == dbExecutions[resp'.id]
              e2 == dbExecutions'[resp'.id]
              allowed == e.Status = "failed" /\ e.RetryCount < MaxRetries
              retried == [Status |-> "pending", RetryCount |-> e.RetryCount + 1,
                          StartedAt |-> FALSE, CompletedAt |-> FALSE, ErrorMsg |-> ""]
              started == [retried EXCEPT !.Status = "running", !.StartedAt = TRUE]
          IN  /\ resp'.err = "nil" =>
                     (allowed /\ e2 = started /\ resp'.id \in executions')
              /\ allowed => e2 \in {e, retried, started}
              /\ ~allowed =>
                     (resp'.err # "nil" /\ e2 = e /\ executions' = executions)]_vars

C13_Witness ==
    /\ resp.op = "RetryExecution"
    /\ resp.err = "failed to retry execution"
    /\ dbExecutions[resp.id].Status = "failed"
    /\ dbExecutions[resp.id].RetryCount = MaxRetries
    /\ Len(transitionHistory) >= 1

====
